---- MODULE Spec2Model ----
(***************************************************************************)
(* ColumnDataCollection (column_data_collection.cpp): an append-only,      *)
(* chunked columnar buffer.  A collection owns an ordered list of          *)
(* segments, a segment owns chunks and a table of vector descriptors, a    *)
(* chunk owns one root descriptor per schema column.                       *)
(*                                                                         *)
(* A failed D_ASSERT raises an internal error.  The body of Verify() is     *)
(* compiled only when DEBUG is defined; a run is of a build with or        *)
(* without it.                                                             *)
(*                                                                         *)
(* Indices (segment_index, chunk_index, VectorDataIndex, row positions)    *)
(* are 0-based as in the C++ code; At(s, i) reads position i of a          *)
(* sequence.                                                               *)
(***************************************************************************)
EXTENDS Integers, Sequences, FiniteSets, TLC

\* ------------------------------------------------------------------ bounds
\* Rows per vector / per chunk (1024 or 2048 in a build; scaled down).
STANDARD_VECTOR_SIZE == 2
\* Largest input.size() of an appended DataChunk.
MaxInput == 3
\* Total number of rows appended over a run.
MaxRows == 3
\* Longest segment list a Combine is asked to build.
MaxSegments == 3
\* Calls of Scan made by one serial scan.
MaxScanCalls == 6
\* The most rows a collection compared by ResultEquals holds.
MaxEqualsRows == 2
\* The largest value a collection compared by ResultEquals holds.
MaxEqualsValue == 2
\* Rows of one appended DataChunk of strings, lists or structs, and rows
\* appended over a run of these.
MaxNestedInput == 3
MaxNestedRows == 3

\* Threads of a parallel scan.
NumThreads == 2

\* --------------------------------------------------------------- helpers
At(s, i) == s[i + 1]

MinValue(x, y) == IF x < y THEN x ELSE y

Last(s) == s[Len(s)]

RECURSIVE Concat(_)
Concat(ss) == IF ss = <<>> THEN <<>> ELSE Head(ss) \o Concat(Tail(ss))

RECURSIVE SumSeq(_)
SumSeq(s) == IF s = <<>> THEN 0 ELSE Head(s) + SumSeq(Tail(s))

\* ---------------------------------------------------------------- values
\* Row values are the integers 1, 2, ...; the three values below are kept
\* apart from them (TLC compares integers with integers only).
\* SQL NULL as it appears in a row of a DataChunk.
NULL == 0
\* DConstants::INVALID_INDEX, the value of a VectorDataIndex that is not set.
INVALID_INDEX == -1
\* Content of block memory that was allocated and never written.
UNINITIALIZED == -2

\* The collections of a run, and the type lists a collection or a DataChunk
\* is constructed with.
Collections == {"a", "b"}

Schemas == {<<"INT32">>, <<"INT64">>}

\* LogicalType::InternalType(): the physical type of a type.  A type is
\* written as its name; the nested types of a run are a list of integers
\* and a struct of an integer and a string.
InternalType(type) ==
    CASE type \in {"LIST(INT32)", "LIST(STRUCT(INT32, VARCHAR))"} -> "LIST"
      [] type = "STRUCT(INT32, VARCHAR)" -> "STRUCT"
      [] OTHER -> type

\* ListType::GetChildType (one type) and StructType::GetChildTypes.
ChildTypes(type) ==
    CASE type = "LIST(INT32)" -> <<"INT32">>
      [] type = "LIST(STRUCT(INT32, VARCHAR))" -> <<"STRUCT(INT32, VARCHAR)">>
      [] type = "STRUCT(INT32, VARCHAR)" -> <<"INT32", "VARCHAR">>
      [] OTHER -> <<>>

\* --------------------------------------------------------------- DataChunk
\* A DataChunk: its type list, one flat vector per column and its row count.
DataChunk(chunk_types, vectors, count) ==
    [types |-> chunk_types, data |-> vectors, count |-> count]

size(chunk) == chunk.count

\* DataChunk::Reset(): the chunk holds no rows.
ResetChunk(chunk_types) ==
    DataChunk(chunk_types, [col \in 1..Len(chunk_types) |-> <<>>], 0)

\* Row r of a chunk: the values of all its columns at position r (a position
\* past the end of a column's vector reads memory that was never written).
RowOf(chunk, r) ==
    [col \in 1..Len(chunk.data) |->
        IF r < Len(chunk.data[col]) THEN At(chunk.data[col], r) ELSE UNINITIALIZED]

RowsOf(chunk) == [r \in 1..size(chunk) |-> RowOf(chunk, r - 1)]

\* Vector::ToUnifiedFormat of a flat vector: identity selection, a validity
\* mask that is false exactly at the NULL rows, and the raw data.
ToUnifiedFormat(vector) ==
    [sel      |-> [i \in 0..(Len(vector) - 1) |-> i],
     validity |-> [i \in 0..(Len(vector) - 1) |-> At(vector, i) # NULL],
     data     |-> [i \in 0..(Len(vector) - 1) |-> At(vector, i)]]

\* A string is written as the number of its bytes (NULL is 0), and a vector
\* of strings as the sequence of these.  string_t::INLINE_LENGTH is the
\* longest string a string_t holds by value (12 in a build; scaled down).
INLINE_LENGTH == 1

\* The string_t of a string in a vector of a DataChunk: inlined it holds the
\* bytes, otherwise it points to the bytes in memory the chunk owns.
SourceString(bytes) ==
    IF bytes <= INLINE_LENGTH
    THEN [inlined |-> TRUE, owner |-> "string_t", value |-> bytes]
    ELSE [inlined |-> FALSE, owner |-> "source", value |-> bytes]

\* A vector of a nested type is a record: its type, the validity of its
\* rows, and for a list its list_entry_t entries (offset, length) and its
\* child vector, for a struct its child vectors.
ListVector(type, validity, entries, child) ==
    [type |-> type, validity |-> validity, entries |-> entries, child |-> child]

StructVector(type, validity, children) ==
    [type |-> type, validity |-> validity, children |-> children]

\* The number of rows of a vector of the type.
VectorSize(type, vector) ==
    IF InternalType(type) \in {"LIST", "STRUCT"}
    THEN Len(vector.validity)
    ELSE Len(vector)

\* Vector::ToUnifiedFormat of a flat vector of the type: for strings the
\* data are string_t, for lists list_entry_t, for structs there are none.
UnifiedVectorFormat(type, vector) ==
    CASE InternalType(type) = "VARCHAR" ->
             [sel      |-> [i \in 0..(Len(vector) - 1) |-> i],
              validity |-> [i \in 0..(Len(vector) - 1) |-> At(vector, i) # NULL],
              data     |-> [i \in 0..(Len(vector) - 1) |-> SourceString(At(vector, i))]]
      [] InternalType(type) = "LIST" ->
             [sel      |-> [i \in 0..(Len(vector.validity) - 1) |-> i],
              validity |-> [i \in 0..(Len(vector.validity) - 1) |-> At(vector.validity, i)],
              data     |-> [i \in 0..(Len(vector.validity) - 1) |-> At(vector.entries, i)]]
      [] InternalType(type) = "STRUCT" ->
             [sel      |-> [i \in 0..(Len(vector.validity) - 1) |-> i],
              validity |-> [i \in 0..(Len(vector.validity) - 1) |-> At(vector.validity, i)],
              data     |-> <<>>]
      [] OTHER -> ToUnifiedFormat(vector)


\* ----------------------------------------------------------------- segment
\* ColumnDataCollectionSegment (column_data_collection_segment.hpp): count,
\* chunk_data (ChunkMetaData: count, one root VectorDataIndex per column) and
\* vector_data (VectorMetaData: count, next_data, child_index).  The block
\* region a descriptor points to is kept with the descriptor: data holds the
\* STANDARD_VECTOR_SIZE value slots and validity the bits of its mask
\* (1 valid, 0 invalid).
Slots == 0..(STANDARD_VECTOR_SIZE - 1)

NewVectorMetaData ==
    [count       |-> 0,
     next_data   |-> INVALID_INDEX,
     child_index |-> INVALID_INDEX,
     data        |-> [i \in Slots |-> UNINITIALIZED],
     validity    |-> [i \in Slots |-> UNINITIALIZED]]

\* A segment as created: no chunks, no descriptors, no child indices and an
\* empty string heap.
NewSegment(segment_types) ==
    [types |-> segment_types, count |-> 0, chunk_data |-> <<>>, vector_data |-> <<>>,
     child_indices |-> <<>>, heap |-> <<>>]

\* What a moved-from unique_ptr<ColumnDataCollectionSegment> holds.
nullptr == [null |-> TRUE]

GetVectorData(segment, index) == At(segment.vector_data, index)

\* AllocateVector(type, chunk_data, state, prev_index): a new descriptor at
\* the end of the table, linked as prev_index's next_data when prev_index is
\* valid.  The new index is Len(vector_data) - 1 of the result.
AllocateVector(segment, prev_index) ==
    LET index  == Len(segment.vector_data)
        linked == IF prev_index # INVALID_INDEX
                  THEN [segment.vector_data EXCEPT ![prev_index + 1].next_data = index]
                  ELSE segment.vector_data
    IN  [segment EXCEPT !.vector_data = Append(linked, NewVectorMetaData)]

\* AddChildIndex(index): the index is added to the table of child indices;
\* the VectorChildIndex of the entry is Len(child_indices) - 1 of the result.
AddChildIndex(segment, index) ==
    [segment EXCEPT !.child_indices = Append(@, index)]

\* GetChildIndex(index, child_entry): the descriptor of child child_entry of
\* a vector whose child_index is index.
GetChildIndex(segment, index, child_entry) ==
    At(segment.child_indices, index + child_entry)

\* The descriptor of a root of a nested type and, recursing, the
\* descriptors of its children: the children are allocated after the parent,
\* their indices are added to the table one after the other, and the
\* parent's child_index is the first of them.
RECURSIVE AllocateChildren(_, _, _)
RECURSIVE AllocateRoot(_, _)
AllocateChildren(segment, child_types, children) ==
    IF child_types = <<>>
    THEN [segment |-> segment, children |-> children]
    ELSE LET allocated == AllocateRoot(segment, Head(child_types))
         IN  AllocateChildren(allocated.segment, Tail(child_types),
                              Append(children, allocated.index))

RECURSIVE AddChildIndices(_, _)
AddChildIndices(segment, children) ==
    IF children = <<>>
    THEN segment
    ELSE AddChildIndices(AddChildIndex(segment, Head(children)), Tail(children))

AllocateRoot(segment, type) ==
    LET allocated == AllocateVector(segment, INVALID_INDEX)
        index     == Len(allocated.vector_data) - 1
    IN  IF ChildTypes(type) = <<>>
        THEN [segment |-> allocated, index |-> index]
        ELSE LET with_children == AllocateChildren(allocated, ChildTypes(type), <<>>)
                 child_index   == Len(with_children.segment.child_indices)
                 registered    == AddChildIndices(with_children.segment,
                                                  with_children.children)
             IN  [segment |-> [registered EXCEPT
                                  !.vector_data[index + 1].child_index = child_index],
                  index   |-> index]

\* AllocateNewChunk(): one root descriptor per schema column, and an empty
\* chunk at the end of chunk_data.
RECURSIVE AllocateRoots(_, _, _)
AllocateRoots(segment, roots, remaining_types) ==
    IF remaining_types = <<>>
    THEN [segment EXCEPT !.chunk_data = Append(@, [count |-> 0, vector_data |-> roots])]
    ELSE LET allocated == AllocateRoot(segment, Head(remaining_types))
         IN  AllocateRoots(allocated.segment,
                           Append(roots, allocated.index),
                           Tail(remaining_types))

AllocateNewChunk(segment) == AllocateRoots(segment, <<>>, segment.types)

ChunkCount(segment) == Len(segment.chunk_data)

\* The rows of one descriptor chain, following next_data from its head: slot
\* i of a descriptor reads as its value when its validity bit is 1, as NULL
\* when the bit is 0, and as whatever the memory holds when the bit was
\* never written.
RECURSIVE ReadVector(_, _)
ReadVector(segment, index) ==
    IF index = INVALID_INDEX
    THEN <<>>
    ELSE LET vdata == GetVectorData(segment, index)
         IN  [i \in 1..vdata.count |->
                 IF vdata.validity[i - 1] = 1 THEN vdata.data[i - 1]
                 ELSE IF vdata.validity[i - 1] = 0 THEN NULL
                 ELSE UNINITIALIZED]
             \o ReadVector(segment, vdata.next_data)

\* The slots of one descriptor chain that hold rows: of each its validity bit
\* and its data.
RECURSIVE ReadSlots(_, _)
ReadSlots(segment, index) ==
    IF index = INVALID_INDEX
    THEN <<>>
    ELSE LET vdata == GetVectorData(segment, index)
         IN  [i \in 1..vdata.count |->
                 [validity |-> vdata.validity[i - 1], data |-> vdata.data[i - 1]]]
             \o ReadSlots(segment, vdata.next_data)

\* The bytes a stored string_t reads as: its own when it is inlined, the
\* blob when it points into the heap of the segment, and whatever the
\* memory holds now when it points anywhere else.
ReadString(segment, string) ==
    IF string.inlined
    THEN string.value
    ELSE IF string.owner = "heap" /\ string.value < Len(segment.heap)
    THEN At(segment.heap, string.value)
    ELSE UNINITIALIZED

\* The vector read from the descriptor chain of a column or child of the
\* given type: strings are read through their string_t, the children of
\* a list and of a struct are read into child vectors.
RECURSIVE ReadColumn(_, _, _)
ReadColumn(segment, type, index) ==
    LET slots       == ReadSlots(segment, index)
        child_index == GetVectorData(segment, index).child_index
    IN  CASE InternalType(type) = "VARCHAR" ->
                 [i \in 1..Len(slots) |->
                     IF slots[i].validity = 1 THEN ReadString(segment, slots[i].data)
                     ELSE IF slots[i].validity = 0 THEN NULL
                     ELSE UNINITIALIZED]
          [] InternalType(type) = "LIST" ->
                 ListVector(type,
                            [i \in 1..Len(slots) |-> slots[i].validity = 1],
                            [i \in 1..Len(slots) |-> slots[i].data],
                            IF child_index = INVALID_INDEX
                            THEN <<>>
                            ELSE ReadColumn(segment, ChildTypes(type)[1],
                                            GetChildIndex(segment, child_index, 0)))
          [] InternalType(type) = "STRUCT" ->
                 StructVector(type,
                              [i \in 1..Len(slots) |-> slots[i].validity = 1],
                              [c \in 1..Len(ChildTypes(type)) |->
                                  ReadColumn(segment, ChildTypes(type)[c],
                                             GetChildIndex(segment, child_index, c - 1))])
          [] OTHER -> ReadVector(segment, index)

\* ReadChunk(chunk_index, state, result, column_ids): the DataChunk of the
\* selected columns of one chunk.
ReadChunk(segment, chunk_index, column_ids) ==
    LET chunk == At(segment.chunk_data, chunk_index)
    IN  DataChunk([i \in 1..Len(column_ids) |-> At(segment.types, At(column_ids, i - 1))],
                  [i \in 1..Len(column_ids) |->
                      ReadColumn(segment, At(segment.types, At(column_ids, i - 1)),
                                 At(chunk.vector_data, At(column_ids, i - 1)))],
                  chunk.count)


\* ------------------------------------------------------------ copy dispatch
\* StringHeap::AddBlob(input): the bytes of input are copied to the end of
\* the heap of the segment; the string_t returned points to the copy.
AddBlob(segment, input) ==
    [segment |-> [segment EXCEPT !.heap = Append(@, input.value)],
     value   |-> [inlined |-> FALSE, owner |-> "heap", value |-> Len(segment.heap)]]

\* Mutant: the string_t of the source is stored as it is.
StringValueCopyKeepsInput(segment, input) ==
    [segment |-> segment, value |-> input]

\* StringValueCopy::Operation.
StringValueCopy(segment, input) ==
    IF input.inlined
    THEN [segment |-> segment, value |-> input]
    ELSE AddBlob(segment, input)

\* Mutant: the list entry is stored with the offset it has in the source.
ListValueCopyKeepsOffset(meta_data, input) == input

\* ListValueCopy::Operation.
ListValueCopy(meta_data, input) ==
    [input EXCEPT !.offset = @ + meta_data.child_list_size]

\* OP::Operation of the value-copy structs: the value stored and the segment
\* (StringValueCopy adds to its heap).  StandardValueCopy returns its input.
Operation(OP, meta_data, segment, input) ==
    CASE OP = "StringValueCopy" -> StringValueCopy(segment, input)
      [] OP = "ListValueCopy" ->
             [segment |-> segment, value |-> ListValueCopy(meta_data, input)]
      [] OTHER -> [segment |-> segment, value |-> input]

\* OP::Assign(meta_data, target, source, target_idx, source_idx) on the
\* block region of descriptor current_index; StructValueCopy assigns nothing.
Assign(OP, meta_data, segment, source_data, current_index, target_idx, source_idx) ==
    IF OP = "StructValueCopy"
    THEN segment
    ELSE LET op == Operation(OP, meta_data, segment, source_data.data[source_idx])
         IN  [op.segment EXCEPT
                 !.vector_data[current_index + 1].data[target_idx] = op.value]

\* The loop "for (idx_t i = 0; i < append_count; i++)" of
\* TemplatedColumnDataCopy: a valid row is assigned, an invalid one is set
\* invalid in the mask.
RECURSIVE AssignLoop(_, _, _, _, _, _, _, _)
AssignLoop(OP, meta_data, segment, source_data, current_index, offset, i, append_count) ==
    IF i >= append_count
    THEN segment
    ELSE LET current_segment == GetVectorData(segment, current_index)
             source_idx == source_data.sel[offset + i]
         IN  AssignLoop(OP, meta_data,
                        IF source_data.validity[source_idx]
                        THEN Assign(OP, meta_data, segment, source_data, current_index,
                                    current_segment.count + i, source_idx)
                        ELSE [segment EXCEPT
                                 !.vector_data[current_index + 1]
                                  .validity[current_segment.count + i] = 0],
                        source_data, current_index, offset, i + 1, append_count)

\* Mutant: the mask is set all valid on every write to a descriptor.
ResultValidityAlwaysSetAllValid(current_segment) == [i \in Slots |-> 1]

\* ValidityMask result_validity(validity_data) of a descriptor about to be
\* written.  First time appending to this vector: set all to valid.
ResultValidity(current_segment) ==
    IF current_segment.count = 0
    THEN [i \in Slots |-> 1]
    ELSE current_segment.validity

\* TemplatedColumnDataCopy<OP>: appends rows [offset, offset + count) of the
\* source to the descriptor chain that starts at meta_data.vector_data_index.
\* One call of CopyLoop is one iteration of "while (remaining > 0)".
RECURSIVE CopyLoop(_, _, _, _, _, _, _)
CopyLoop(OP, meta_data, segment, source_data, current_index, offset, remaining) ==
    IF remaining = 0
    THEN segment
    ELSE LET current_segment == GetVectorData(segment, current_index)
             append_count ==
                 MinValue(STANDARD_VECTOR_SIZE - current_segment.count, remaining)
             result_validity == ResultValidity(current_segment)
             left == remaining - append_count
             \* the next iteration, on the segment with the vector to write to
             Iterate(grown) ==
                 CopyLoop(OP, meta_data, grown, source_data,
                          IF left > 0
                          THEN GetVectorData(grown, current_index).next_data
                          ELSE current_index,
                          offset + append_count, left)
             \* need to append more: allocate a new vector unless one is linked
             Grow(stored) ==
                 Iterate(IF left > 0
                                  /\ GetVectorData(stored, current_index).next_data
                                         = INVALID_INDEX
                               THEN AllocateVector(stored, current_index)
                               ELSE stored)
             \* current_segment.count += append_count
             Store(assigned) ==
                 Grow([assigned EXCEPT
                          !.vector_data[current_index + 1].count = @ + append_count])
         IN  Store(AssignLoop(OP, meta_data,
                              [segment EXCEPT
                                  !.vector_data[current_index + 1].validity =
                                      result_validity],
                              source_data, current_index, offset, 0, append_count))

\* Mutant: the copy ignores the offset of its window and starts at row 0.
TemplatedColumnDataCopyIgnoresOffset(OP, meta_data, segment, source_data, offset, count) ==
    CopyLoop(OP, meta_data, segment, source_data, meta_data.vector_data_index, 0, count)

\* Mutant: the copy leaves out the last row of its window.
TemplatedColumnDataCopyOneRowLess(OP, meta_data, segment, source_data, offset, count) ==
    IF count > 0
    THEN CopyLoop(OP, meta_data, segment, source_data, meta_data.vector_data_index,
                  offset, count - 1)
    ELSE segment

\* TemplatedColumnDataCopy<OP>(meta_data, source_data, source, offset, count).
TemplatedColumnDataCopy(OP, meta_data, segment, source_data, offset, count) ==
    CopyLoop(OP, meta_data, segment, source_data, meta_data.vector_data_index, offset, count)

\* ColumnDataCopy<T> for the fixed-width types.
ColumnDataCopy(meta_data, segment, source_data, offset, copy_count) ==
    TemplatedColumnDataCopy("StandardValueCopy", meta_data, segment, source_data,
                            offset, copy_count)

\* GetCopyFunction(type): the copy function tree of one column.
RECURSIVE GetCopyFunction(_)
GetCopyFunction(type) ==
    CASE InternalType(type) \in {"INT32", "INT64"} ->
             [function |-> "ColumnDataCopy", child_functions |-> <<>>]
      [] InternalType(type) = "VARCHAR" ->
             [function |-> "ColumnDataCopy<string_t>", child_functions |-> <<>>]
      [] InternalType(type) = "STRUCT" ->
             [function        |-> "ColumnDataCopyStruct",
              child_functions |-> [i \in 1..Len(ChildTypes(type)) |->
                                      GetCopyFunction(ChildTypes(type)[i])]]
      [] InternalType(type) = "LIST" ->
             [function        |-> "ColumnDataCopy<list_entry_t>",
              child_functions |-> <<GetCopyFunction(ChildTypes(type)[1])>>]
      [] OTHER ->
             [function |-> "InternalException", child_functions |-> <<>>]

\* ColumnDataMetaData for one call of a copy function.
ColumnDataMetaData(copy_function, vector_data_index) ==
    [copy_function     |-> copy_function,
     vector_data_index |-> vector_data_index,
     child_list_size   |-> INVALID_INDEX]

\* ColumnDataCopy<string_t>.
ColumnDataCopyString(meta_data, segment, source_data, offset, copy_count) ==
    TemplatedColumnDataCopy("StringValueCopy", meta_data, segment, source_data,
                            offset, copy_count)

\* The current list size: the counts of the chain of child descriptors that
\* starts at current_child_index.
RECURSIVE CurrentListSize(_, _)
CurrentListSize(segment, current_child_index) ==
    IF current_child_index = INVALID_INDEX
    THEN 0
    ELSE LET child_vdata == GetVectorData(segment, current_child_index)
         IN  child_vdata.count + CurrentListSize(segment, child_vdata.next_data)

\* copy_function.function(meta_data, source_data, source, offset, copy_count):
\* the call through the function pointer of a copy function tree.
RECURSIVE CopyFunction(_, _, _, _, _, _)

\* ColumnDataCopy<list_entry_t>: the whole child vector of the source is
\* appended to the chain of child descriptors, then the list entries are
\* copied with child_list_size the size of the chain before.  A segment that
\* a step returns is bound once (x \in {e}) and used by the steps after it.
ColumnDataCopyList(meta_data, segment, source_data, source, offset, copy_count) ==
    LET child_vector      == source.child
        child_type        == ChildTypes(source.type)[1]
        child_list_size   == VectorSize(child_type, child_vector)
        child_vector_data == UnifiedVectorFormat(child_type, child_vector)
        child_function    == meta_data.copy_function.child_functions[1]
        \* the segment once the vector has a child
        with_child ==
            IF GetVectorData(segment, meta_data.vector_data_index).child_index
                   = INVALID_INDEX
            THEN CHOOSE result \in
                     { [AddChildIndex(allocated.segment, allocated.index) EXCEPT
                           !.vector_data[meta_data.vector_data_index + 1].child_index =
                               Len(allocated.segment.child_indices)] :
                       allocated \in {AllocateRoot(segment, child_type)} } : TRUE
            ELSE segment
        \* the child entries are appended, then the list entries are copied
        CopyEntries(allocated) ==
            LET child_index ==
                    GetChildIndex(allocated,
                                  GetVectorData(allocated,
                                                meta_data.vector_data_index).child_index,
                                  0)
                current_list_size == CurrentListSize(allocated, child_index)
                child_meta_data   == ColumnDataMetaData(child_function, child_index)
            IN  CHOOSE result \in
                    { TemplatedColumnDataCopy(
                          "ListValueCopy",
                          [meta_data EXCEPT !.child_list_size = current_list_size],
                          appended, source_data, offset, copy_count) :
                      appended \in { CopyFunction(child_meta_data, allocated,
                                                  child_vector_data, child_vector,
                                                  0, child_list_size) } } : TRUE
    IN  CHOOSE result \in { CopyEntries(allocated) : allocated \in {with_child} } : TRUE

\* The loop over child_idx of ColumnDataCopyStruct: every child vector is
\* copied by its own copy function with the window of the parent.
RECURSIVE CopyStructChildren(_, _, _, _, _, _)
CopyStructChildren(meta_data, segment, source, child_idx, offset, copy_count) ==
    IF child_idx >= Len(ChildTypes(source.type))
    THEN segment
    ELSE LET child_function == At(meta_data.copy_function.child_functions, child_idx)
             child_index ==
                 GetChildIndex(segment,
                               GetVectorData(segment, meta_data.vector_data_index).child_index,
                               child_idx)
             child_meta_data == ColumnDataMetaData(child_function, child_index)
             child_data == UnifiedVectorFormat(At(ChildTypes(source.type), child_idx),
                                               At(source.children, child_idx))
         IN  CopyStructChildren(meta_data,
                                CopyFunction(child_meta_data, segment, child_data,
                                             At(source.children, child_idx),
                                             offset, copy_count),
                                source, child_idx + 1, offset, copy_count)

\* Mutant: ColumnDataCopyStruct that copies the NULL values of the struct
\* vector and leaves out the child vectors.
ColumnDataCopyStructOnly(meta_data, segment, source_data, source, offset, copy_count) ==
    TemplatedColumnDataCopy("StructValueCopy", meta_data, segment, source_data,
                            offset, copy_count)

\* ColumnDataCopyStruct: the NULL values of the struct vector, then the
\* child vectors.  AllocateNewChunk has allocated the children.
ColumnDataCopyStruct(meta_data, segment, source_data, source, offset, copy_count) ==
    CopyStructChildren(meta_data,
                       TemplatedColumnDataCopy("StructValueCopy", meta_data, segment,
                                               source_data, offset, copy_count),
                       source, 0, offset, copy_count)

CopyFunction(meta_data, segment, source_data, source, offset, copy_count) ==
    CASE meta_data.copy_function.function = "ColumnDataCopy<string_t>" ->
             ColumnDataCopyString(meta_data, segment, source_data, offset, copy_count)
      [] meta_data.copy_function.function = "ColumnDataCopy<list_entry_t>" ->
             ColumnDataCopyList(meta_data, segment, source_data, source, offset, copy_count)
      [] meta_data.copy_function.function = "ColumnDataCopyStruct" ->
             ColumnDataCopyStruct(meta_data, segment, source_data, source, offset,
                                  copy_count)
      [] OTHER ->
             ColumnDataCopy(meta_data, segment, source_data, offset, copy_count)


\* --------------------------------------------------------------- collection
\* ColumnDataCollection::Initialize(types): the state after construction.
Initialize(types_p) ==
    [types           |-> types_p,
     count           |-> 0,
     finished_append |-> FALSE,
     copy_functions  |-> [i \in 1..Len(types_p) |-> GetCopyFunction(types_p[i])],
     segments        |-> <<>>]

\* ColumnDataCollection(shared_ptr<ColumnDataAllocator> allocator_p, types_p):
\* a collection that holds the allocator it is given.  Allocators are
\* told apart by a number.
ColumnDataCollection(allocator_p, types_p) ==
    Initialize(types_p) @@ [allocator |-> allocator_p]

\* Mutant: a copy constructor that leaves finished_append of other alone.
ColumnDataCollectionCopyKeepsAppending(other) ==
    [this   |-> ColumnDataCollection(other.allocator, other.types),
     other  |-> other,
     result |-> IF other.types = <<>> THEN "InternalException" ELSE "ok"]

\* ColumnDataCollection(ColumnDataCollection &other): the new collection,
\* what becomes of other, and whether the assertion on types held.
ColumnDataCollectionCopy(other) ==
    [this   |-> ColumnDataCollection(other.allocator, other.types),
     other  |-> [other EXCEPT !.finished_append = TRUE],
     result |-> IF other.types = <<>> THEN "InternalException" ELSE "ok"]

\* An operation's outcome: the collection it leaves and how it ended ("ok",
\* "InternalException" for a throw or a failed D_ASSERT, "segfault" for a
\* dereference of a null segment pointer).
Outcome(collection, result) == [collection |-> collection, result |-> result]

CreateSegment(collection) ==
    [collection EXCEPT !.segments = Append(@, NewSegment(collection.types))]

\* Mutant: InitializeAppend that allocates a chunk whether or not the last
\* segment has one.
InitializeAppendAlwaysAllocates(collection) ==
    IF collection.finished_append
    THEN Outcome(collection, "InternalException")
    ELSE LET created == IF collection.segments = <<>>
                        THEN CreateSegment(collection)
                        ELSE collection
             segment == Last(created.segments)
         IN  IF segment = nullptr
             THEN Outcome(collection, "segfault")
             ELSE Outcome([created EXCEPT !.segments[Len(created.segments)] =
                                              AllocateNewChunk(segment)], "ok")

\* InitializeAppend(state): a segment and a chunk to append to exist.
InitializeAppend(collection) ==
    IF collection.finished_append
    THEN Outcome(collection, "InternalException")
    ELSE LET created == IF collection.segments = <<>>
                        THEN CreateSegment(collection)
                        ELSE collection
             segment == Last(created.segments)
         IN  IF segment = nullptr
             THEN Outcome(collection, "segfault")
             ELSE IF segment.chunk_data = <<>>
             THEN Outcome([created EXCEPT !.segments[Len(created.segments)] =
                                              AllocateNewChunk(segment)], "ok")
             ELSE Outcome(created, "ok")

\* The loop over vector_idx inside Append: every column's copy function is
\* called on the window [offset, offset + append_amount) of its input vector,
\* writing to the last chunk of the segment.
RECURSIVE CopyColumns(_, _, _, _, _, _, _)
CopyColumns(collection, segment, input, vector_data, vector_idx, offset, append_amount) ==
    IF vector_idx >= Len(collection.types)
    THEN segment
    ELSE LET chunk_data == Last(segment.chunk_data)
             meta_data  == ColumnDataMetaData(At(collection.copy_functions, vector_idx),
                                              At(chunk_data.vector_data, vector_idx))
         IN  CopyColumns(collection,
                         CopyFunction(meta_data, segment, At(vector_data, vector_idx),
                                      At(input.data, vector_idx), offset, append_amount),
                         input, vector_data, vector_idx + 1, offset, append_amount)

\* Mutant: Append that leaves a partially filled chunk as it is and writes
\* to a new chunk.
RECURSIVE AppendLoopNewChunkFirst(_, _, _, _, _)
AppendLoopNewChunkFirst(collection, segment, input, vector_data, remaining) ==
    IF remaining = 0
    THEN segment
    ELSE LET chunk_data    == Last(segment.chunk_data)
             append_amount == IF chunk_data.count > 0
                              THEN 0
                              ELSE MinValue(remaining, STANDARD_VECTOR_SIZE)
             offset        == size(input) - remaining
             left == remaining - append_amount
             Iterate(copied) ==
                 AppendLoopNewChunkFirst(collection,
                        IF left > 0 THEN AllocateNewChunk(copied) ELSE copied,
                        input, vector_data, left)
             Count(written) ==
                 Iterate([written EXCEPT !.chunk_data[Len(written.chunk_data)].count =
                                                   @ + append_amount])
         IN  IF append_amount > 0
             THEN Count(CopyColumns(collection, segment, input, vector_data, 0,
                                    offset, append_amount))
             ELSE Iterate(segment)

\* One iteration of "while (remaining > 0)" of Append.
RECURSIVE AppendLoop(_, _, _, _, _)
AppendLoop(collection, segment, input, vector_data, remaining) ==
    IF remaining = 0
    THEN segment
    ELSE LET chunk_data    == Last(segment.chunk_data)
             append_amount == MinValue(remaining, STANDARD_VECTOR_SIZE - chunk_data.count)
             offset        == size(input) - remaining
             left == remaining - append_amount
             \* if more is left, a new chunk is allocated for the next iteration
             Iterate(copied) ==
                 AppendLoop(collection,
                            IF left > 0 THEN AllocateNewChunk(copied) ELSE copied,
                            input, vector_data, left)
             \* chunk_data.count += append_amount
             Count(written) ==
                 Iterate([written EXCEPT !.chunk_data[Len(written.chunk_data)].count =
                                                   @ + append_amount])
         IN  IF append_amount > 0
             THEN Count(CopyColumns(collection, segment, input, vector_data, 0,
                                    offset, append_amount))
             ELSE Iterate(segment)

\* Mutant: Append that adds the rows to the count of the collection and not
\* to the count of the segment.
AppendStateWithoutSegmentCount(collection, input) ==
    IF collection.finished_append \/ collection.types # input.types
    THEN Outcome(collection, "InternalException")
    ELSE LET segment == Last(collection.segments)
             vector_data == [i \in 1..Len(collection.types) |->
                           UnifiedVectorFormat(input.types[i], input.data[i])]
         IN  IF segment = nullptr
             THEN Outcome(collection, "segfault")
             ELSE Outcome([collection EXCEPT
                              !.segments[Len(collection.segments)] =
                                  AppendLoop(collection, segment, input, vector_data,
                                             size(input)),
                              !.count = @ + size(input)], "ok")

\* Mutant: Append without the assertion on the type list of the input.
AppendStateWithoutTypeCheck(collection, input) ==
    LET segment == Last(collection.segments)
        vector_data == [i \in 1..Len(collection.types) |->
                           UnifiedVectorFormat(input.types[i], input.data[i])]
    IN  IF segment = nullptr
        THEN Outcome(collection, "segfault")
        ELSE Outcome([collection EXCEPT
                         !.segments[Len(collection.segments)] =
                             [AppendLoop(collection, segment, input, vector_data,
                                         size(input))
                                 EXCEPT !.count = @ + size(input)],
                         !.count = @ + size(input)], "ok")

\* Append(state, input).  The caller has run InitializeAppend, so segments is
\* not empty.
AppendState(collection, input) ==
    IF collection.finished_append \/ collection.types # input.types
    THEN Outcome(collection, "InternalException")
    ELSE LET segment == Last(collection.segments)
             vector_data == [i \in 1..Len(collection.types) |->
                           UnifiedVectorFormat(input.types[i], input.data[i])]
         IN  IF segment = nullptr
             THEN Outcome(collection, "segfault")
             ELSE Outcome([collection EXCEPT
                              !.segments[Len(collection.segments)] =
                                  [AppendLoop(collection, segment, input, vector_data,
                                              size(input))
                                      EXCEPT !.count = @ + size(input)],
                              !.count = @ + size(input)], "ok")

\* Append(input): InitializeAppend on a fresh state, then Append(state, input).
AppendChunk(collection, input) ==
    LET initialized == InitializeAppend(collection)
    IN  IF initialized.result # "ok"
        THEN initialized
        ELSE AppendState(initialized.collection, input)


\* --------------------------------------------------------------------- scan
\* Mutant: InitializeScan that starts at the second chunk.
InitializeScanAtSecondChunk(column_ids) ==
    [chunk_index       |-> 1,
     segment_index     |-> 0,
     current_row_index |-> 0,
     next_row_index    |-> 0,
     handles           |-> {},
     column_ids        |-> column_ids]

\* InitializeScan(state, column_ids, properties).
InitializeScan(column_ids) ==
    [chunk_index       |-> 0,
     segment_index     |-> 0,
     current_row_index |-> 0,
     next_row_index    |-> 0,
     handles           |-> {},
     column_ids        |-> column_ids]

\* InitializeScan(state, properties): all columns of the schema.
AllColumns(collection) == [i \in 1..Len(collection.types) |-> i - 1]

\* What NextScanIndex returns: found is its return value, result is "ok" or
\* "segfault" (segments[state.segment_index] is a null pointer).
ScanIndex(state, found, chunk_index, segment_index, row_index, result) ==
    [state |-> state, found |-> found, chunk_index |-> chunk_index,
     segment_index |-> segment_index, row_index |-> row_index, result |-> result]

\* Mutant: NextScanIndex that keeps the handles when it moves to the next
\* segment.
RECURSIVE NextScanIndexLoopKeepsHandles(_, _, _)
NextScanIndexLoopKeepsHandles(collection, state, row_index) ==
    LET segment == At(collection.segments, state.segment_index)
    IN  IF segment = nullptr
        THEN ScanIndex(state, FALSE, 0, 0, row_index, "segfault")
        ELSE IF state.chunk_index >= Len(segment.chunk_data)
        THEN LET moved == [state EXCEPT !.chunk_index = 0,
                                        !.segment_index = @ + 1]
             IN  IF moved.segment_index >= Len(collection.segments)
                 THEN ScanIndex(moved, FALSE, 0, 0, row_index, "ok")
                 ELSE NextScanIndexLoopKeepsHandles(collection, moved, row_index)
        ELSE ScanIndex([state EXCEPT
                           !.next_row_index =
                               @ + At(segment.chunk_data, state.chunk_index).count,
                           !.chunk_index = @ + 1],
                       TRUE, state.chunk_index, state.segment_index, row_index, "ok")

\* One evaluation of the condition of "while (state.chunk_index >=
\* segments[state.segment_index]->chunk_data.size())" and what follows it.
RECURSIVE NextScanIndexLoop(_, _, _)
NextScanIndexLoop(collection, state, row_index) ==
    LET segment == At(collection.segments, state.segment_index)
    IN  IF segment = nullptr
        THEN ScanIndex(state, FALSE, 0, 0, row_index, "segfault")
        ELSE IF state.chunk_index >= Len(segment.chunk_data)
        THEN \* exhausted all chunks of this segment: move to the next one
             LET moved == [state EXCEPT !.chunk_index = 0,
                                        !.segment_index = @ + 1,
                                        !.handles = {}]
             IN  IF moved.segment_index >= Len(collection.segments)
                 THEN ScanIndex(moved, FALSE, 0, 0, row_index, "ok")
                 ELSE NextScanIndexLoop(collection, moved, row_index)
        ELSE ScanIndex([state EXCEPT
                           !.next_row_index =
                               @ + At(segment.chunk_data, state.chunk_index).count,
                           !.chunk_index = @ + 1],
                       TRUE, state.chunk_index, state.segment_index, row_index, "ok")

\* Mutant: NextScanIndex handing out the row index of the previous chunk.
NextScanIndexStaleRowIndex(collection, state) ==
    LET start == [state EXCEPT !.current_row_index = state.next_row_index]
    IN  IF start.segment_index >= Len(collection.segments)
        THEN ScanIndex(start, FALSE, 0, 0, state.current_row_index, "ok")
        ELSE NextScanIndexLoop(collection, start, state.current_row_index)

\* Mutant: NextScanIndex that does not move current_row_index.
NextScanIndexKeepsCurrentRow(collection, state) ==
    IF state.segment_index >= Len(collection.segments)
    THEN ScanIndex(state, FALSE, 0, 0, state.next_row_index, "ok")
    ELSE NextScanIndexLoop(collection, state, state.next_row_index)

\* NextScanIndex(state, chunk_index, segment_index, row_index).
NextScanIndex(collection, state) ==
    LET start == [state EXCEPT !.current_row_index = state.next_row_index]
    IN  IF start.segment_index >= Len(collection.segments)
        THEN \* no more data left in the scan
             ScanIndex(start, FALSE, 0, 0, state.next_row_index, "ok")
        ELSE NextScanIndexLoop(collection, start, state.next_row_index)

\* Scan(state, result): the serial scan.  returned is the function's return
\* value; chunk is result after the call.
Scan(collection, state) ==
    LET next == NextScanIndex(collection, state)
        chunk_types == [i \in 1..Len(state.column_ids) |->
                           At(collection.types, At(state.column_ids, i - 1))]
    IN  IF ~next.found
        THEN [state |-> next.state, returned |-> FALSE,
              chunk |-> ResetChunk(chunk_types), result |-> next.result]
        ELSE [state |-> [next.state EXCEPT !.handles = @ \cup {next.segment_index}],
              returned |-> TRUE,
              chunk |-> ReadChunk(At(collection.segments, next.segment_index),
                                  next.chunk_index, state.column_ids),
              result |-> "ok"]

\* A serial Scan from a fresh InitializeScan until it returns false: the
\* chunks delivered, in order, and how the scan ended.
RECURSIVE ScanLoop(_, _, _)
ScanLoop(collection, state, chunks) ==
    LET scanned == Scan(collection, state)
    IN  IF scanned.returned
        THEN ScanLoop(collection, scanned.state, Append(chunks, scanned.chunk))
        ELSE [chunks |-> chunks, result |-> scanned.result]

FullScan(collection) == ScanLoop(collection, InitializeScan(AllColumns(collection)), <<>>)

\* The rows a full serial scan delivers, chunk after chunk.
ScannedRows(collection) ==
    LET scan == FullScan(collection)
    IN  Concat([i \in 1..Len(scan.chunks) |-> RowsOf(scan.chunks[i])])

\* ---------------------------------------------------------------- iteration
\* The null collection pointer of an iterator.
NoCollection == "nullptr"

\* ColumnDataChunkIterator(collection_p, column_ids_p).  this_ptr names the
\* collection the iterator points to, collection is what it points to.
ColumnDataChunkIterator(this_ptr, collection, column_ids) ==
    IF this_ptr = NoCollection
    THEN [collection |-> NoCollection, scan_state |-> InitializeScan(<<>>),
          scan_chunk |-> ResetChunk(<<>>), row_index |-> 0, result |-> "ok"]
    ELSE LET scanned == Scan(collection, InitializeScan(column_ids))
         IN  [collection |-> this_ptr, scan_state |-> scanned.state,
              scan_chunk |-> scanned.chunk, row_index |-> 0, result |-> scanned.result]

\* Mutant: Next() that leaves row_index as it is when the scan is exhausted.
ChunkIteratorNextKeepsRowIndex(it, collection) ==
    IF it.collection = NoCollection
    THEN it
    ELSE LET scanned == Scan(collection, it.scan_state)
         IN  IF ~scanned.returned
             THEN [it EXCEPT !.collection = NoCollection,
                             !.scan_state = scanned.state,
                             !.scan_chunk = scanned.chunk,
                             !.result = scanned.result]
             ELSE [it EXCEPT !.row_index = @ + size(scanned.chunk),
                             !.scan_state = scanned.state,
                             !.scan_chunk = scanned.chunk]

\* ColumnDataChunkIterator::Next().
ChunkIteratorNext(it, collection) ==
    IF it.collection = NoCollection
    THEN it
    ELSE LET scanned == Scan(collection, it.scan_state)
         IN  IF ~scanned.returned
             THEN [it EXCEPT !.collection = NoCollection, !.row_index = 0,
                             !.scan_state = scanned.state,
                             !.scan_chunk = scanned.chunk,
                             !.result = scanned.result]
             ELSE [it EXCEPT !.row_index = @ + size(scanned.chunk),
                             !.scan_state = scanned.state,
                             !.scan_chunk = scanned.chunk]

\* ColumnDataChunkIterator::operator!=.
ChunkIteratorNotEqual(it, other) ==
    it.collection # other.collection \/ it.row_index # other.row_index

\* ColumnDataChunkIterationHelper::begin() and end(): begin() primes the
\* iterator with the first chunk, end() is the sentinel with a null
\* collection pointer and row_index 0.
ChunksBegin(this_ptr, collection, column_ids) ==
    ColumnDataChunkIterator(this_ptr, collection, column_ids)

ChunksEnd == ColumnDataChunkIterator(NoCollection, ResetChunk(<<>>), <<>>)

\* ColumnDataRowIterator(collection_p).
ColumnDataRowIterator(this_ptr, collection) ==
    IF this_ptr = NoCollection
    THEN [collection |-> NoCollection, scan_state |-> InitializeScan(<<>>),
          scan_chunk |-> ResetChunk(<<>>),
          current_row |-> [row_index |-> 0, base_index |-> 0], result |-> "ok"]
    ELSE LET scanned == Scan(collection, InitializeScan(AllColumns(collection)))
         IN  [collection |-> this_ptr, scan_state |-> scanned.state,
              scan_chunk |-> scanned.chunk,
              current_row |-> [row_index |-> 0, base_index |-> 0],
              result |-> scanned.result]

\* ColumnDataRowIterator::Next().
RowIteratorNext(it, collection) ==
    IF it.collection = NoCollection
    THEN it
    ELSE IF it.current_row.row_index + 1 < size(it.scan_chunk)
    THEN [it EXCEPT !.current_row.row_index = @ + 1]
    ELSE LET scanned == Scan(collection, it.scan_state)
             moved   == [it EXCEPT !.current_row.base_index = @ + size(it.scan_chunk),
                                   !.current_row.row_index = 0,
                                   !.scan_state = scanned.state,
                                   !.scan_chunk = scanned.chunk,
                                   !.result = scanned.result]
         IN  IF ~scanned.returned
             THEN \* exhausted collection: move iterator to nop state
                  [moved EXCEPT !.current_row.base_index = 0,
                                !.collection = NoCollection]
             ELSE moved

\* ColumnDataRowIterationHelper::begin() and end().
RowsBegin(this_ptr, collection) ==
    ColumnDataRowIterator(IF collection.count = 0 THEN NoCollection ELSE this_ptr,
                          collection)

RowsEnd == ColumnDataRowIterator(NoCollection, ResetChunk(<<>>))

\* ColumnDataRowIterator::operator!=.
RowIteratorNotEqual(it, other) ==
    \/ it.collection # other.collection
    \/ it.current_row.row_index # other.current_row.row_index
    \/ it.current_row.base_index # other.current_row.base_index

\* ColumnDataRow::RowIndex().
RowIndex(row) == row.base_index + row.row_index

\* ColumnDataRowCollection(collection), the result of GetRows(): the chunks
\* of a full scan and one ColumnDataRow per row of each.
RECURSIVE RowTable(_, _, _)
RowTable(chunks, chunk_idx, base_row) ==
    IF chunk_idx > Len(chunks)
    THEN <<>>
    ELSE [row_idx \in 1..size(chunks[chunk_idx]) |->
             [chunk |-> chunk_idx - 1, row_index |-> row_idx - 1, base_index |-> base_row]]
         \o RowTable(chunks, chunk_idx + 1, base_row + size(chunks[chunk_idx]))

GetRows(collection) ==
    IF collection.count = 0
    THEN [chunks |-> <<>>, rows |-> <<>>, result |-> "ok"]
    ELSE LET scan == FullScan(collection)
         IN  [chunks |-> scan.chunks, rows |-> RowTable(scan.chunks, 1, 0),
              result |-> scan.result]

\* ColumnDataRowCollection::GetValue(column, index).
GetValue(row_collection, column, index) ==
    LET row == row_collection.rows[index + 1]
    IN  At(row_collection.chunks[row.chunk + 1].data[column + 1], row.row_index)

\* ChunkCount() of a collection: the sum of its segments' ChunkCount().
CollectionChunkCount(collection) ==
    IF \E i \in 1..Len(collection.segments) : collection.segments[i] = nullptr
    THEN [chunk_count |-> 0, result |-> "segfault"]
    ELSE [chunk_count |-> SumSeq([i \in 1..Len(collection.segments) |->
                                     ChunkCount(collection.segments[i])]),
          result |-> "ok"]

\* ------------------------------------------------------------ combine, reset
\* Verify(): under DEBUG it follows every segment pointer and asserts that
\* the segment counts add up to the collection's count; without DEBUG its body
\* is empty.
RECURSIVE SegmentCounts(_)
SegmentCounts(segs) ==
    IF segs = <<>> THEN 0 ELSE Head(segs).count + SegmentCounts(Tail(segs))

Verify(collection, debug) ==
    IF ~debug
    THEN "ok"
    ELSE IF \E i \in 1..Len(collection.segments) : collection.segments[i] = nullptr
    THEN "segfault"
    ELSE IF SegmentCounts(collection.segments) # collection.count
    THEN "InternalException"
    ELSE "ok"

\* Mutant: Combine without the comparison of the type lists.
CombineWithoutTypeCheck(collection, other, debug) ==
    IF other.count = 0
    THEN [this |-> collection, other |-> other, result |-> "ok"]
    ELSE [this   |-> [collection EXCEPT !.count = @ + other.count,
                                        !.segments = @ \o other.segments],
          other  |-> [other EXCEPT !.segments =
                         [i \in 1..Len(other.segments) |-> nullptr]],
          result |-> "ok"]

\* this->Combine(other): what it leaves of this and of other, and how it
\* ended.
Combine(collection, other, debug) ==
    IF other.count = 0
    THEN [this |-> collection, other |-> other, result |-> "ok"]
    ELSE IF collection.types # other.types
    THEN [this |-> collection, other |-> other, result |-> "InternalException"]
    ELSE LET combined ==
                 [collection EXCEPT !.count = @ + other.count,
                                    !.segments = @ \o other.segments]
         IN  [this   |-> combined,
              \* every unique_ptr of other.segments was moved from
              other  |-> [other EXCEPT !.segments =
                             [i \in 1..Len(other.segments) |-> nullptr]],
              \* Verify() runs last, on the collection already extended
              result |-> Verify(combined, debug)]

\* Reset().
Reset(collection) == [collection EXCEPT !.count = 0, !.segments = <<>>]


\* Value::DefaultValuesAreEqual(lvalue, rvalue): two NULLs are equal, a NULL
\* and a value are not.
DefaultValuesAreEqual(lvalue, rvalue) == lvalue = rvalue

\* The text a caller's error_message holds before ResultEquals writes it.
NoMessage == [text |-> "", args |-> <<>>]

\* The loops of ResultEquals over rows r and columns c: the first pair of
\* values that differ, or none.
RECURSIVE CompareValues(_, _, _, _, _, _)
CompareValues(left_rows, right_rows, row_count, column_count, r, c) ==
    IF r >= row_count
    THEN [returned |-> TRUE, error_message |-> NoMessage]
    ELSE IF c >= column_count
    THEN CompareValues(left_rows, right_rows, row_count, column_count, r + 1, 0)
    ELSE LET lvalue == GetValue(left_rows, c, r)
             rvalue == GetValue(left_rows, c, r)
         IN  IF ~DefaultValuesAreEqual(lvalue, rvalue)
             THEN [returned |-> FALSE,
                   error_message |-> [text |-> "%s <> %s (row: %lld, col: %lld)\n",
                                      args |-> <<lvalue, rvalue, r, c>>]]
             ELSE CompareValues(left_rows, right_rows, row_count, column_count, r, c + 1)

\* ResultEquals(left, right, error_message): whether it returned true, and
\* the error_message it wrote (NoMessage if it wrote none).
ResultEquals(left, right) ==
    IF Len(left.types) # Len(right.types)
    THEN [returned |-> FALSE,
          error_message |-> [text |-> "Column count mismatch", args |-> <<>>]]
    ELSE IF left.count # right.count
    THEN [returned |-> FALSE,
          error_message |-> [text |-> "Row count mismatch", args |-> <<>>]]
    ELSE CompareValues(GetRows(left), GetRows(right), left.count, Len(left.types), 0, 0)

\* -------------------------------------------------------------------- state
VARIABLES
    DEBUG,         \* whether the build defines DEBUG
    collections,   \* the ColumnDataCollection objects, by name
    next_value,    \* the number of rows appended so far; input values are numbered from it
    history,       \* per collection: the rows appended to it while only Append touched it
    last,          \* the last call: operation, receiver, argument, outcome, and the
                   \* DataChunk it appended (of a failed Append only the type list)
    pstate,        \* the shared ColumnDataParallelScanState: scan_state and lock
    lstate,        \* per thread: its ColumnDataLocalScanState
    pc,            \* per thread: where it is in Scan(state, lstate, result)
    frame,         \* per thread: the locals of Scan and what it read of scan_state
    result_chunk,  \* per thread: the DataChunk result of its Scan call
    handed_out,    \* the indices NextScanIndex handed out, in the order of the lock
    delivered,     \* the chunks that Scan calls returning true have delivered
    chunk_iterator, \* a loop over Chunks(): the iterator and the chunks it yielded
    row_iterator,  \* a loop over Rows(): the iterator and the rows it visited
    serial_scan,   \* a serial scan: its ColumnDataScanState and the calls of Scan made
    fetched        \* the calls of FetchChunk made: chunk_idx, the chunk read, the result

appendvars == <<DEBUG, collections, next_value, history, last>>

scanvars == <<pstate, lstate, pc, frame, result_chunk, handed_out, delivered>>

itervars == <<chunk_iterator, row_iterator, serial_scan, fetched>>

vars == <<DEBUG, collections, next_value, history, last,
          pstate, lstate, pc, frame, result_chunk, handed_out, delivered,
          chunk_iterator, row_iterator, serial_scan, fetched>>

Threads == 1..NumThreads

\* The lock of a ColumnDataParallelScanState that no thread holds.
Unlocked == 0

NewLocalScanState ==
    [current_segment_index |-> INVALID_INDEX, current_row_index |-> 0, handles |-> {}]

NewFrame == [chunk_index |-> 0, segment_index |-> 0, row_index |-> 0,
             scan_state |-> InitializeScan(<<>>)]

\* No parallel scan has been set up.
NoScan ==
    /\ pstate = [scan_state |-> InitializeScan(<<>>), lock |-> Unlocked]
    /\ lstate = [t \in Threads |-> NewLocalScanState]
    /\ pc = [t \in Threads |-> "idle"]
    /\ frame = [t \in Threads |-> NewFrame]
    /\ result_chunk = [t \in Threads |-> ResetChunk(<<>>)]
    /\ handed_out = <<>>
    /\ delivered = <<>>

\* No loop over Chunks() or Rows() and no serial scan has been started.
NoIteration ==
    /\ chunk_iterator = [started |-> FALSE, it |-> ChunksEnd, yielded |-> <<>>]
    /\ row_iterator = [started |-> FALSE, it |-> RowsEnd, visited |-> <<>>]
    /\ serial_scan = [state |-> InitializeScan(<<>>), calls |-> <<>>]
    /\ fetched = <<>>

NoInput == ResetChunk(<<>>)

Call(op, this, other, input, result) ==
    [op |-> op, this |-> this, other |-> other, input |-> input, result |-> result]

\* The DataChunks a caller appends: any type list, up to MaxInput rows, any
\* row NULL, the others numbered in the order appended.
InputChunks ==
    { DataChunk(t[1],
                << [i \in 1..t[2] |-> IF (i - 1) \in t[3] THEN NULL ELSE next_value + i] >>,
                t[2]) :
        t \in { t \in Schemas \X (0..MaxInput) \X SUBSET (0..(MaxInput - 1)) :
                  /\ t[3] \subseteq 0..(t[2] - 1)
                  /\ next_value + t[2] <= MaxRows } }

\* a is constructed with one schema, b with the same or with another one.
Init ==
    /\ DEBUG \in BOOLEAN
    /\ \E schema \in Schemas :
           collections = [a |-> Initialize(<<"INT32">>), b |-> Initialize(schema)]
    /\ next_value = 0
    /\ history = [c \in Collections |-> [rows |-> <<>>, only_appended |-> TRUE]]
    /\ last = Call("construct", "a", "a", NoInput, "ok")
    /\ NoScan
    /\ NoIteration

\* A process that dereferenced a null pointer has ended; what it left of
\* its collections is not observed.
Running == last.result # "segfault"

CallInitializeAppend(c) ==
    /\ Running
    /\ LET out == InitializeAppend(collections[c])
       IN  /\ collections' = [collections EXCEPT ![c] = out.collection]
           /\ last' = Call("InitializeAppend", c, c, NoInput, out.result)
    /\ UNCHANGED <<DEBUG, next_value, history>>
    /\ UNCHANGED <<scanvars, itervars>>

Appended(c, input, out) ==
    /\ collections' = [collections EXCEPT ![c] = out.collection]
    /\ next_value' = IF out.result = "ok" THEN next_value + size(input) ELSE next_value
    /\ history' = IF out.result = "ok" /\ history[c].only_appended
                  THEN [history EXCEPT ![c].rows = @ \o RowsOf(input)]
                  ELSE history

Kept(input, out) == IF out.result = "ok" THEN input ELSE ResetChunk(input.types)

\* Append(state, input) with a state that InitializeAppend has initialized:
\* the collection has a segment to append to.
CallAppendState(c, input) ==
    /\ Running
    /\ collections[c].segments # <<>>
    /\ LET out == AppendState(collections[c], input)
       IN  /\ Appended(c, input, out)
           /\ last' = Call("Append", c, c, Kept(input, out), out.result)
    /\ UNCHANGED <<DEBUG, scanvars, itervars>>

\* Append(input).
CallAppendChunk(c, input) ==
    /\ Running
    /\ LET out == AppendChunk(collections[c], input)
       IN  /\ Appended(c, input, out)
           /\ last' = Call("AppendChunk", c, c, Kept(input, out), out.result)
    /\ UNCHANGED <<DEBUG, scanvars, itervars>>

\* this.Combine(other) of two distinct collections.
CallCombine(this, other) ==
    /\ Running
    /\ this # other
    /\ Len(collections[this].segments) + Len(collections[other].segments) <= MaxSegments
    /\ LET out == Combine(collections[this], collections[other], DEBUG)
           moved == out.this # collections[this]
       IN  /\ collections' = [collections EXCEPT ![this] = out.this, ![other] = out.other]
           /\ history' = IF moved
                         THEN [history EXCEPT
                                  ![this] = [rows |-> <<>>, only_appended |-> FALSE],
                                  ![other] = [rows |-> <<>>, only_appended |-> FALSE]]
                         ELSE history
           /\ last' = Call("Combine", this, other, NoInput, out.result)
    /\ UNCHANGED <<DEBUG, next_value>>
    /\ UNCHANGED <<scanvars, itervars>>

Next ==
    \/ \E c \in Collections : CallInitializeAppend(c)
    \/ \E c \in Collections : \E input \in InputChunks : CallAppendState(c, input)
    \/ \E c \in Collections : \E input \in InputChunks : CallAppendChunk(c, input)
    \/ \E this \in Collections : \E other \in Collections : CallCombine(this, other)

Spec == Init /\ [][Next]_vars


\* ------------------------------------------------------------ parallel scan
\* The collections a parallel scan runs over: a after Append(input) of n1
\* rows and Combine with b after Append(input) of n2 rows, and a as
\* constructed.
Source(first, n) == DataChunk(<<"INT32">>, << [i \in 1..n |-> first + i] >>, n)

ScanTargets ==
    { [a |-> Initialize(<<"INT32">>), b |-> Initialize(<<"INT32">>), rows |-> <<>>] }
    \cup
    { LET a   == AppendChunk(Initialize(<<"INT32">>), Source(0, n[1])).collection
          b   == AppendChunk(Initialize(<<"INT32">>), Source(n[1], n[2])).collection
          out == Combine(a, b, TRUE)
      IN  [a |-> out.this, b |-> out.other,
           rows |-> RowsOf(Source(0, n[1])) \o RowsOf(Source(n[1], n[2]))] :
        n \in (0..MaxInput) \X (0..MaxInput) }

\* The collection under scan; it is not modified while the scan runs.
Scanned == collections["a"]

\* InitializeScan(state, properties) on the shared state, before the threads
\* start calling Scan.
InitParallel ==
    /\ DEBUG \in BOOLEAN
    /\ \E target \in ScanTargets :
           /\ collections = [c \in Collections |-> IF c = "a" THEN target.a ELSE target.b]
           /\ history = [c \in Collections |->
                            [rows |-> IF c = "a" THEN target.rows ELSE <<>>,
                             only_appended |-> FALSE]]
    /\ next_value = 0
    /\ last = Call("InitializeScan", "a", "a", NoInput, "ok")
    /\ pstate = [scan_state |-> InitializeScan(AllColumns(Scanned)), lock |-> Unlocked]
    /\ lstate = [t \in Threads |-> NewLocalScanState]
    /\ pc = [t \in Threads |-> "call"]
    /\ frame = [t \in Threads |-> NewFrame]
    /\ result_chunk = [t \in Threads |-> ResetChunk(<<>>)]
    /\ handed_out = <<>>
    /\ delivered = <<>>
    /\ NoIteration

\* Mutant: Scan without the mutex.
ScanLockWithoutMutex(t) ==
    /\ pc[t] = "call"
    /\ pstate' = [pstate EXCEPT !.lock = t]
    /\ frame' = [frame EXCEPT ![t].scan_state = pstate.scan_state]
    /\ result_chunk' = [result_chunk EXCEPT ![t] = ResetChunk(collections["a"].types)]
    /\ pc' = [pc EXCEPT ![t] = "locked"]
    /\ UNCHANGED <<lstate, handed_out, delivered>>
    /\ UNCHANGED <<appendvars, itervars>>

\* Scan(state, lstate, result) up to the lock_guard: result.Reset(), then
\* the thread takes state.lock and NextScanIndex starts reading scan_state.
ScanLock(t) ==
    /\ pc[t] = "call"
    /\ pstate.lock = Unlocked
    /\ pstate' = [pstate EXCEPT !.lock = t]
    /\ frame' = [frame EXCEPT ![t].scan_state = pstate.scan_state]
    /\ result_chunk' = [result_chunk EXCEPT ![t] = ResetChunk(Scanned.types)]
    /\ pc' = [pc EXCEPT ![t] = "locked"]
    /\ UNCHANGED <<lstate, handed_out, delivered>>
    /\ UNCHANGED <<appendvars, itervars>>

\* Mutant: the lock is released only when NextScanIndex has found a chunk;
\* "return false" leaves the block with the lock held.
ScanNextIndexKeepsLockOnFalse(t) ==
    /\ pc[t] = "locked"
    /\ LET next == NextScanIndex(Scanned, frame[t].scan_state)
       IN  /\ pstate' = [scan_state |-> next.state,
                         lock |-> IF pstate.lock = t /\ next.found
                                  THEN Unlocked ELSE pstate.lock]
           /\ frame' = [frame EXCEPT ![t].chunk_index = next.chunk_index,
                                     ![t].segment_index = next.segment_index,
                                     ![t].row_index = next.row_index]
           /\ pc' = [pc EXCEPT ![t] = IF next.result = "segfault" THEN "segfault"
                                      ELSE IF next.found THEN "read" ELSE "done"]
           /\ handed_out' =
                  IF next.found
                  THEN Append(handed_out,
                              [thread |-> t, segment_index |-> next.segment_index,
                               chunk_index |-> next.chunk_index,
                               row_index |-> next.row_index])
                  ELSE handed_out
    /\ UNCHANGED <<lstate, result_chunk, delivered>>
    /\ UNCHANGED <<appendvars, itervars>>

\* NextScanIndex under the lock: it writes scan_state back, and the
\* lock_guard releases the lock on both ways out of its block.
ScanNextIndex(t) ==
    /\ pc[t] = "locked"
    /\ LET next == NextScanIndex(Scanned, frame[t].scan_state)
       IN  /\ pstate' = [scan_state |-> next.state,
                         lock |-> IF pstate.lock = t THEN Unlocked ELSE pstate.lock]
           /\ frame' = [frame EXCEPT ![t].chunk_index = next.chunk_index,
                                     ![t].segment_index = next.segment_index,
                                     ![t].row_index = next.row_index]
           /\ pc' = [pc EXCEPT ![t] = IF next.result = "segfault" THEN "segfault"
                                      ELSE IF next.found THEN "read" ELSE "done"]
           /\ handed_out' =
                  IF next.found
                  THEN Append(handed_out,
                              [thread |-> t, segment_index |-> next.segment_index,
                               chunk_index |-> next.chunk_index,
                               row_index |-> next.row_index])
                  ELSE handed_out
    /\ UNCHANGED <<lstate, result_chunk, delivered>>
    /\ UNCHANGED <<appendvars, itervars>>

\* ScanAtIndex, outside the lock, and "return true".
ScanAtIndex(t) ==
    /\ pc[t] = "read"
    /\ LET segment_index == frame[t].segment_index
           chunk == ReadChunk(At(Scanned.segments, segment_index), frame[t].chunk_index,
                              pstate.scan_state.column_ids)
       IN  /\ lstate' = [lstate EXCEPT ![t] =
                  [current_segment_index |-> segment_index,
                   current_row_index     |-> frame[t].row_index,
                   handles |-> (IF segment_index # @.current_segment_index
                                THEN {} ELSE @.handles) \cup {segment_index}]]
           /\ result_chunk' = [result_chunk EXCEPT ![t] = chunk]
           /\ delivered' = Append(delivered,
                                  [thread |-> t, segment_index |-> segment_index,
                                   chunk_index |-> frame[t].chunk_index, chunk |-> chunk])
    /\ pc' = [pc EXCEPT ![t] = "call"]
    /\ UNCHANGED <<pstate, frame, handed_out>>
    /\ UNCHANGED <<appendvars, itervars>>

NextParallel ==
    \/ \E t \in Threads : ScanLock(t)
    \/ \E t \in Threads : ScanNextIndex(t)
    \/ \E t \in Threads : ScanAtIndex(t)

SpecParallel == InitParallel /\ [][NextParallel]_vars

\* The threads of a parallel scan under a fair scheduler: a thread that can
\* take a step is not left out forever.  A thread that waits for the mutex
\* can take its step whenever the mutex is free.
Fairness ==
    \A t \in Threads :
        /\ WF_vars(ScanLock(t))
        /\ WF_vars(ScanNextIndex(t))
        /\ WF_vars(ScanAtIndex(t))

SpecParallelFair == InitParallel /\ [][NextParallel]_vars /\ Fairness


\* ---------------------------------------------------------------- iteration
\* A loop over Chunks(), a loop over Rows() and a serial scan of one
\* collection that is not modified meanwhile.
InitIteration ==
    /\ DEBUG \in BOOLEAN
    /\ \E target \in ScanTargets :
           /\ collections = [c \in Collections |-> IF c = "a" THEN target.a ELSE target.b]
           /\ history = [c \in Collections |->
                            [rows |-> IF c = "a" THEN target.rows ELSE <<>>,
                             only_appended |-> FALSE]]
    /\ next_value = 0
    /\ last = Call("InitializeScan", "a", "a", NoInput, "ok")
    /\ NoScan
    /\ chunk_iterator = [started |-> FALSE, it |-> ChunksEnd, yielded |-> <<>>]
    /\ row_iterator = [started |-> FALSE, it |-> RowsEnd, visited |-> <<>>]
    /\ serial_scan = [state |-> InitializeScan(AllColumns(Scanned)), calls |-> <<>>]
    /\ fetched = <<>>

\* for (auto &chunk : collection.Chunks()): the iterator is set to begin().
ChunksStart ==
    /\ ~chunk_iterator.started
    /\ chunk_iterator' = [started |-> TRUE,
                          it |-> ChunksBegin("a", Scanned, AllColumns(Scanned)),
                          yielded |-> <<>>]
    /\ UNCHANGED <<appendvars, scanvars, row_iterator, serial_scan, fetched>>

\* One round of the loop: it != end(), the body reads *it, then ++it.
ChunksStep ==
    /\ chunk_iterator.started
    /\ chunk_iterator.it.result = "ok"
    /\ ChunkIteratorNotEqual(chunk_iterator.it, ChunksEnd)
    /\ chunk_iterator' = [chunk_iterator EXCEPT
                              !.yielded = Append(@, chunk_iterator.it.scan_chunk),
                              !.it = ChunkIteratorNext(@, Scanned)]
    /\ UNCHANGED <<appendvars, scanvars, row_iterator, serial_scan, fetched>>

\* for (auto &row : collection.Rows()): the iterator is set to begin().
RowsStart ==
    /\ ~row_iterator.started
    /\ row_iterator' = [started |-> TRUE, it |-> RowsBegin("a", Scanned),
                        visited |-> <<>>]
    /\ UNCHANGED <<appendvars, scanvars, chunk_iterator, serial_scan, fetched>>

\* One round of the loop: it != end(), the body reads *it, then ++it.
RowsStep ==
    /\ row_iterator.started
    /\ row_iterator.it.result = "ok"
    /\ RowIteratorNotEqual(row_iterator.it, RowsEnd)
    /\ row_iterator' = [row_iterator EXCEPT
           !.visited = Append(@, [row_index  |-> row_iterator.it.current_row.row_index,
                                  base_index |-> row_iterator.it.current_row.base_index,
                                  chunk_size |-> size(row_iterator.it.scan_chunk),
                                  values     |-> RowOf(row_iterator.it.scan_chunk,
                                                       row_iterator.it.current_row.row_index)]),
           !.it = RowIteratorNext(@, Scanned)]
    /\ UNCHANGED <<appendvars, scanvars, chunk_iterator, serial_scan, fetched>>

\* One call of Scan(state, result) of the serial scan, also after it has
\* returned false.
CallScan ==
    /\ Len(serial_scan.calls) < MaxScanCalls
    /\ \A i \in 1..Len(serial_scan.calls) : serial_scan.calls[i].result = "ok"
    /\ LET next    == NextScanIndex(Scanned, serial_scan.state)
           scanned == Scan(Scanned, serial_scan.state)
       IN  serial_scan' =
               [state |-> scanned.state,
                calls |-> Append(serial_scan.calls,
                                 [returned          |-> scanned.returned,
                                  chunk             |-> scanned.chunk,
                                  segment_index     |-> next.segment_index,
                                  chunk_index       |-> next.chunk_index,
                                  current_row_index |-> scanned.state.current_row_index,
                                  next_row_index    |-> scanned.state.next_row_index,
                                  result            |-> scanned.result])]
    /\ UNCHANGED <<appendvars, scanvars, chunk_iterator, row_iterator, fetched>>

NextIteration ==
    \/ ChunksStart
    \/ ChunksStep
    \/ RowsStart
    \/ RowsStep
    \/ CallScan

SpecIteration == InitIteration /\ [][NextIteration]_vars


\* ------------------------------------------------------------- ResultEquals
\* Two collections are filled row by row and compared with ResultEquals.
\* The rows appended: one row per chunk, every column holding the same value
\* or NULL.
EqualsValues == {NULL} \cup (1..MaxEqualsValue)

EqualsSchemas == {<<"INT32">>, <<"INT32", "INT32">>}

EqualsInput(schema, value) == DataChunk(schema, [col \in 1..Len(schema) |-> <<value>>], 1)

InitEquals ==
    /\ DEBUG \in BOOLEAN
    /\ \E schema \in EqualsSchemas :
           collections = [a |-> Initialize(<<"INT32">>), b |-> Initialize(schema)]
    /\ next_value = 0
    /\ history = [c \in Collections |-> [rows |-> <<>>, only_appended |-> TRUE]]
    /\ last = Call("construct", "a", "a", NoInput, "ok")
    /\ NoScan
    /\ NoIteration

\* c.Append(input) of one row.
EqualsAppend(c, value) ==
    /\ collections[c].count < MaxEqualsRows
    /\ LET input == EqualsInput(collections[c].types, value)
           out   == AppendChunk(collections[c], input)
       IN  /\ collections' = [collections EXCEPT ![c] = out.collection]
           /\ history' = [history EXCEPT ![c].rows = @ \o RowsOf(input)]
           /\ last' = Call("AppendChunk", c, c, input, out.result)
    /\ UNCHANGED <<DEBUG, next_value, scanvars, itervars>>

\* ResultEquals(a, b, error_message) with an error_message that holds no text.
CallResultEquals ==
    /\ LET out == ResultEquals(collections["a"], collections["b"])
       IN  last' = [op |-> "ResultEquals", this |-> "a", other |-> "b",
                    input |-> NoInput, result |-> "ok",
                    returned |-> out.returned, error_message |-> out.error_message]
    /\ UNCHANGED <<DEBUG, collections, next_value, history, scanvars, itervars>>

NextEquals ==
    \/ \E c \in Collections : \E value \in EqualsValues : EqualsAppend(c, value)
    \/ CallResultEquals

SpecEquals == InitEquals /\ [][NextEquals]_vars

\* --------------------------------------------------------- copy construction
\* Two collections, each constructed with an allocator of its own, are
\* appended to, and each may be replaced by a copy constructed from the other.
InitCopy ==
    /\ DEBUG \in BOOLEAN
    /\ \E schema \in Schemas :
           collections = [a |-> ColumnDataCollection(1, <<"INT32">>),
                          b |-> ColumnDataCollection(2, schema)]
    /\ next_value = 0
    /\ history = [c \in Collections |-> [rows |-> <<>>, only_appended |-> TRUE]]
    /\ last = Call("construct", "a", "a", NoInput, "ok")
    /\ NoScan
    /\ NoIteration

\* The DataChunks appended to c: of the types of c, without NULLs.
CopyInputs(c) ==
    { DataChunk(collections[c].types, << [i \in 1..n |-> next_value + i] >>, n) :
        n \in { n \in 0..MaxInput : next_value + n <= MaxRows } }

\* The object named this is constructed anew as ColumnDataCollection(other).
CallCopy(this, other) ==
    /\ this # other
    /\ LET out == ColumnDataCollectionCopy(collections[other])
       IN  /\ collections' = [collections EXCEPT ![this] = out.this, ![other] = out.other]
           /\ last' = Call("copy", this, other, NoInput, out.result)
    /\ history' = [history EXCEPT ![this] = [rows |-> <<>>, only_appended |-> TRUE]]
    /\ UNCHANGED <<DEBUG, next_value, scanvars, itervars>>

NextCopy ==
    \/ \E c \in Collections : CallInitializeAppend(c)
    \/ \E c \in Collections : \E input \in CopyInputs(c) : CallAppendState(c, input)
    \/ \E c \in Collections : \E input \in CopyInputs(c) : CallAppendChunk(c, input)
    \/ \E this \in Collections : \E other \in Collections : CallCopy(this, other)

SpecCopy == InitCopy /\ [][NextCopy]_vars

\* ------------------------------------------------- strings, lists, structs
\* Two collections of one column of strings, of lists of integers or of
\* structs, or of a column of integers and one of strings, are appended to
\* and combined.
NestedSchemas ==
    {<<"VARCHAR">>, <<"LIST(INT32)">>, <<"STRUCT(INT32, VARCHAR)">>, <<"INT32", "VARCHAR">>}

\* The values of the rows of a vector of the type: a string or integer as
\* it is, a list as the part of the child vector its entry selects, a
\* struct as the values of its children, NULL lists and structs marked.
RECURSIVE ColumnValues(_, _)
ColumnValues(type, vector) ==
    CASE InternalType(type) = "LIST" ->
             [i \in 1..Len(vector.validity) |->
                 IF vector.validity[i]
                 THEN [null  |-> FALSE,
                       value |-> SubSeq(ColumnValues(ChildTypes(type)[1], vector.child),
                                        vector.entries[i].offset + 1,
                                        vector.entries[i].offset + vector.entries[i].length)]
                 ELSE [null |-> TRUE, value |-> <<>>]]
      [] InternalType(type) = "STRUCT" ->
             [i \in 1..Len(vector.validity) |->
                 [null  |-> ~vector.validity[i],
                  value |-> [c \in 1..Len(ChildTypes(type)) |->
                                ColumnValues(ChildTypes(type)[c], vector.children[c])[i]]]]
      [] OTHER -> vector

\* The rows of a DataChunk, as values.
ValuesOf(chunk) ==
    LET values == [col \in 1..Len(chunk.types) |->
                      ColumnValues(chunk.types[col], chunk.data[col])]
    IN  [i \in 1..size(chunk) |-> [col \in 1..Len(chunk.types) |-> values[col][i]]]

\* The vectors a caller appends.  Strings: any of the lengths up to
\* NULL, the longest string that is inlined, or one a byte longer.
StringVectors(n) == [1..n -> {NULL, INLINE_LENGTH, INLINE_LENGTH + 1}]

\* Lists: every row NULL, an empty list, a list of one integer or a list of
\* as many integers as fill a vector; the
\* entries lie one after the other in the child vector, whose integers are
\* numbered by row and position.
ListRows ==
    { r \in [null : BOOLEAN, length : {0, 1, STANDARD_VECTOR_SIZE}] : r.null => r.length = 0 }

ListOf(first_row, rows) ==
    LET offset(i) == SumSeq([k \in 1..(i - 1) |-> rows[k].length])
    IN  ListVector("LIST(INT32)",
                   [i \in 1..Len(rows) |-> ~rows[i].null],
                   [i \in 1..Len(rows) |-> [offset |-> offset(i), length |-> rows[i].length]],
                   Concat([i \in 1..Len(rows) |->
                              [j \in 1..rows[i].length |->
                                  (first_row + i - 1) * STANDARD_VECTOR_SIZE + j]]))

ListVectors(first_row, n) == { ListOf(first_row, rows) : rows \in [1..n -> ListRows] }

\* Structs: a NULL struct of NULLs, or a struct of an integer or NULL and a
\* string that is inlined or not.
StructRows ==
    { [null |-> TRUE, number |-> FALSE, string |-> NULL],
      [null |-> FALSE, number |-> TRUE, string |-> INLINE_LENGTH],
      [null |-> FALSE, number |-> TRUE, string |-> INLINE_LENGTH + 1],
      [null |-> FALSE, number |-> FALSE, string |-> INLINE_LENGTH + 1] }

StructOf(first_row, rows) ==
    StructVector("STRUCT(INT32, VARCHAR)",
                 [i \in 1..Len(rows) |-> ~rows[i].null],
                 << [i \in 1..Len(rows) |-> IF rows[i].number THEN first_row + i ELSE NULL],
                    [i \in 1..Len(rows) |-> rows[i].string] >>)

StructVectors(first_row, n) == { StructOf(first_row, rows) : rows \in [1..n -> StructRows] }

\* Lists of structs: the lists as above; the structs of the child vector
\* are, one after the other, a struct of an integer and a string that is not
\* inlined, a NULL struct, and a struct of NULL and an inlined string.
StructListOf(first_row, rows) ==
    LET list  == ListOf(first_row, rows)
        child == StructVector("STRUCT(INT32, VARCHAR)",
                              [k \in 1..Len(list.child) |-> k % 3 # 2],
                              << [k \in 1..Len(list.child) |->
                                     IF k % 3 = 1 THEN list.child[k] ELSE NULL],
                                 [k \in 1..Len(list.child) |->
                                     CASE k % 3 = 1 -> INLINE_LENGTH + 1
                                       [] k % 3 = 2 -> NULL
                                       [] OTHER -> INLINE_LENGTH] >>)
    IN  ListVector("LIST(STRUCT(INT32, VARCHAR))", list.validity, list.entries, child)

StructListVectors(first_row, n) ==
    { StructListOf(first_row, rows) : rows \in [1..n -> ListRows] }

NestedVectors(type, first_row, n) ==
    CASE InternalType(type) = "VARCHAR" -> StringVectors(n)
      [] type = "LIST(STRUCT(INT32, VARCHAR))" -> StructListVectors(first_row, n)
      [] InternalType(type) = "LIST" -> ListVectors(first_row, n)
      [] InternalType(type) = "STRUCT" -> StructVectors(first_row, n)

\* The vectors of the columns of a schema: of one column any vector of its
\* type, of a column of integers and one of strings the vectors that are
\* the children of a struct.
NestedColumns(types, first_row, n) ==
    IF Len(types) = 1
    THEN { <<vector>> : vector \in NestedVectors(types[1], first_row, n) }
    ELSE { struct.children : struct \in StructVectors(first_row, n) }

\* The DataChunks appended to collection c: up to MaxNestedInput rows of
\* its types, up to MaxNestedRows rows over a run.
NestedInputs(c) ==
    LET types == collections[c].types
    IN  UNION { { DataChunk(types, data, n) :
                    data \in NestedColumns(types, next_value, n) } :
                n \in { n \in 1..MaxNestedInput : next_value + n <= MaxNestedRows } }

InitNested ==
    /\ DEBUG \in BOOLEAN
    /\ \E schema \in NestedSchemas :
           collections = [c \in Collections |-> Initialize(schema)]
    /\ next_value = 0
    /\ history = [c \in Collections |-> [rows |-> <<>>, only_appended |-> TRUE]]
    /\ last = Call("construct", "a", "a", NoInput, "ok")
    /\ NoScan
    /\ NoIteration

\* The collection holds all the segments of its list.
Usable(collection) ==
    \A i \in 1..Len(collection.segments) : collection.segments[i] # nullptr

\* c.Append(input); the source chunk is destroyed afterwards.
NestedAppend(c, input) ==
    /\ Usable(collections[c])
    /\ LET out == AppendChunk(collections[c], input)
       IN  /\ collections' = [collections EXCEPT ![c] = out.collection]
           /\ last' = Call("AppendChunk", c, c, input, out.result)
    /\ next_value' = next_value + size(input)
    /\ history' = [history EXCEPT ![c].rows = @ \o ValuesOf(input)]
    /\ UNCHANGED <<DEBUG, scanvars, itervars>>

\* this.Combine(other) of two distinct collections that hold rows.
NestedCombine(this, other) ==
    /\ this # other
    /\ Usable(collections[this])
    /\ Usable(collections[other])
    /\ collections[other].count > 0
    /\ LET out == Combine(collections[this], collections[other], DEBUG)
       IN  /\ collections' = [collections EXCEPT ![this] = out.this, ![other] = out.other]
           /\ last' = Call("Combine", this, other, NoInput, out.result)
    /\ history' = [history EXCEPT
                      ![this] = [rows |-> history[this].rows \o history[other].rows,
                                 only_appended |-> FALSE],
                      ![other] = [rows |-> <<>>, only_appended |-> FALSE]]
    /\ UNCHANGED <<DEBUG, next_value, scanvars, itervars>>

NextNested ==
    \/ \E c \in Collections : \E input \in NestedInputs(c) : NestedAppend(c, input)
    \/ \E this \in Collections : \E other \in Collections : NestedCombine(this, other)

SpecNested == InitNested /\ [][NextNested]_vars

\* ------------------------------------------------------------------ structs
\* Two collections of one column of structs, or of lists of structs, are
\* appended to and combined.
StructSchemas == {<<"STRUCT(INT32, VARCHAR)">>, <<"LIST(STRUCT(INT32, VARCHAR))">>}

InitStruct ==
    /\ DEBUG \in BOOLEAN
    /\ \E schema \in StructSchemas :
           collections = [c \in Collections |-> Initialize(schema)]
    /\ next_value = 0
    /\ history = [c \in Collections |-> [rows |-> <<>>, only_appended |-> TRUE]]
    /\ last = Call("construct", "a", "a", NoInput, "ok")
    /\ NoScan
    /\ NoIteration

SpecStruct == InitStruct /\ [][NextNested]_vars

\* ---------------------------------------------------------------- pin caches
\* A scan of a collection that is not modified meanwhile: either the serial
\* scan of one state, or the threads of a parallel scan with their local
\* states.
InitPins == InitIteration \/ InitParallel

\* One call of the serial Scan; no parallel scan has been set up.
SerialScan ==
    /\ \A t \in Threads : pc[t] = "idle"
    /\ CallScan

NextPins ==
    \/ SerialScan
    \/ \E t \in Threads : ScanLock(t)
    \/ \E t \in Threads : ScanNextIndex(t)
    \/ \E t \in Threads : ScanAtIndex(t)

SpecPins == InitPins /\ [][NextPins]_vars

\* =================================================================== claims
\* The segments a collection owns: the non-null pointers of its segment list.
OwnedSegments(collection) == SelectSeq(collection.segments, LAMBDA s : s # nullptr)

\* The DataChunks a collection holds: every chunk of every segment it owns.
HeldChunks(collection) ==
    LET owned == OwnedSegments(collection)
    IN  Concat([i \in 1..Len(owned) |->
                   [j \in 1..Len(owned[i].chunk_data) |->
                       ReadChunk(owned[i], j - 1, AllColumns(collection))]])

ChunkCounts(collection) ==
    LET owned == OwnedSegments(collection)
    IN  SumSeq([i \in 1..Len(owned) |->
                   SumSeq([j \in 1..Len(owned[i].chunk_data) |->
                              owned[i].chunk_data[j].count])])

\* C1: round trip.  For a collection that only Append has touched, a serial
\* scan from a fresh InitializeScan until it returns false ends normally and
\* the rows of the chunks it delivers, concatenated, are exactly the rows of
\* the appended DataChunks, in the order appended.
C1_RoundTrip ==
    \A c \in Collections :
        history[c].only_appended =>
            /\ FullScan(collections[c]).result = "ok"
            /\ ScannedRows(collections[c]) = history[c].rows

\* Two Appends have filled a collection with MaxRows rows, one of them NULL,
\* and the scan delivers them in more than one chunk.
C1_Witness ==
    \E c \in Collections :
        /\ history[c].only_appended
        /\ last.op = "Append" /\ last.this = c /\ last.result = "ok"
        /\ Len(history[c].rows) = MaxRows
        /\ size(last.input) > 0 /\ size(last.input) < MaxRows
        /\ \E i \in 1..MaxRows : history[c].rows[i] = <<NULL>>
        /\ \E i \in 1..MaxRows : history[c].rows[i] # <<NULL>>
        /\ Len(FullScan(collections[c]).chunks) > 1

\* C2: count consistency.  Every collection has count equal to the sum of the
\* counts of its segments, to the sum of the counts of their chunks, and to
\* the total size() of the DataChunks it holds.
C2_CountConsistency ==
    \A c \in Collections :
        /\ collections[c].count = SegmentCounts(OwnedSegments(collections[c]))
        /\ collections[c].count = ChunkCounts(collections[c])
        /\ collections[c].count =
               SumSeq([i \in 1..Len(HeldChunks(collections[c])) |->
                          size(HeldChunks(collections[c])[i])])


\* The last step was a Combine of this and other that returned normally.
Combined(this, other) ==
    /\ last'.op = "Combine" /\ last'.this = this /\ last'.other = other
    /\ last'.result = "ok"

\* C3: Combine transfer.  After a.Combine(b) with matching schemas a's count
\* is its old count plus b's old count, a's segment list is its old list
\* followed by b's old segments in order, and a serial scan of a yields the
\* rows of old-a followed by the rows of old-b.
C3_CombineTransfer ==
    [][\A this \in Collections : \A other \in Collections :
          (Combined(this, other) /\ collections[this].types = collections[other].types) =>
              /\ collections'[this].count =
                     collections[this].count + collections[other].count
              /\ collections'[this].segments =
                     collections[this].segments \o collections[other].segments
              /\ FullScan(collections'[this]).result = "ok"
              /\ ScannedRows(collections'[this]) =
                     ScannedRows(collections[this]) \o ScannedRows(collections[other])]_vars

\* C4: Combine leaves its argument empty.  After a.Combine(b), b.Count() is
\* 0, b owns no segments, b.ChunkCount() is 0 and a serial scan of b returns
\* false at once.
C4_CombineLeavesOtherEmpty ==
    (last.op = "Combine" /\ last.result = "ok") =>
        LET b == collections[last.other]
        IN  /\ b.count = 0
            /\ b.segments = <<>>
            /\ CollectionChunkCount(b) = [chunk_count |-> 0, result |-> "ok"]
            /\ FullScan(b) = [chunks |-> <<>>, result |-> "ok"]

\* The last step was a.Combine(b) of collections with different schemas.
CombinedMismatched(this, other) ==
    /\ last'.op = "Combine" /\ last'.this = this /\ last'.other = other
    /\ collections[this].types # collections[other].types

C6_AppendSchemaCheck ==
    [][\A c \in Collections :
          (last'.op = "Append" /\ last'.this = c
              /\ last'.input.types # collections[c].types) =>
              /\ last'.result = "InternalException"
              /\ collections' = collections]_vars

\* An Append of a mismatched DataChunk to a collection that holds rows has
\* raised the error.
C6_Witness ==
    /\ last.op = "Append" /\ last.result = "InternalException"
    /\ last.input.types # collections[last.this].types
    /\ collections[last.this].count > 0
    /\ ~collections[last.this].finished_append

\* The rows of the chunks the parallel Scan calls have delivered so far.
DeliveredRows == Concat([i \in 1..Len(delivered) |-> RowsOf(delivered[i].chunk)])

Occurrences(rows, row) == Cardinality({i \in 1..Len(rows) : rows[i] = row})

SameMultiset(rows1, rows2) ==
    /\ Len(rows1) = Len(rows2)
    /\ \A i \in 1..Len(rows1) : Occurrences(rows1, rows1[i]) = Occurrences(rows2, rows1[i])

AllDone == \A t \in Threads : pc[t] = "done"

\* C7: parallel-scan completeness.  No (segment_index, chunk_index) pair is
\* delivered to more than one Scan call, and once every thread has had Scan
\* return false the rows of all delivered chunks are, as a multiset, the
\* rows of the collection.
C7_ParallelScanCompleteness ==
    /\ \A i \in 1..Len(delivered) : \A j \in 1..Len(delivered) :
           (i # j) => \/ delivered[i].segment_index # delivered[j].segment_index
                      \/ delivered[i].chunk_index # delivered[j].chunk_index
    /\ AllDone =>
           /\ \A s \in 1..Len(collections["a"].segments) :
                  \A k \in 1..Len(collections["a"].segments[s].chunk_data) :
                      \E i \in 1..Len(delivered) :
                          /\ delivered[i].segment_index = s - 1
                          /\ delivered[i].chunk_index = k - 1
           /\ SameMultiset(DeliveredRows, ScannedRows(collections["a"]))
           /\ SameMultiset(DeliveredRows, history["a"].rows)

\* Every thread has had Scan return false after each thread was delivered a
\* chunk, of a collection of two segments one of which has two chunks.
C7_Witness ==
    /\ AllDone
    /\ \A t \in Threads : \E i \in 1..Len(delivered) : delivered[i].thread = t
    /\ \E i \in 1..Len(delivered) : delivered[i].segment_index = 1
    /\ \E i \in 1..Len(delivered) : delivered[i].chunk_index = 1
    /\ Len(delivered) >= 3

\* (segment_index, chunk_index) pairs in lexicographic order.
Before(x, y) ==
    \/ x.segment_index < y.segment_index
    \/ x.segment_index = y.segment_index /\ x.chunk_index < y.chunk_index

\* The count of the chunk a hand-out names.
HandedCount(x) ==
    At(At(collections["a"].segments, x.segment_index).chunk_data, x.chunk_index).count

\* C8: parallel hand-out order.  The successful NextScanIndex calls, in the
\* order they ran under the lock, yield strictly increasing (segment_index,
\* chunk_index) pairs, and the row_index of each is the number of rows of all
\* chunks handed out before it.
C8_HandOutOrder ==
    \A j \in 1..Len(handed_out) :
        /\ \A i \in 1..(j - 1) : Before(handed_out[i], handed_out[j])
        /\ handed_out[j].row_index =
               SumSeq([i \in 1..(j - 1) |-> HandedCount(handed_out[i])])

\* Three chunks of two segments have been handed out, to different threads,
\* the last at a row index that is not 0.
C8_Witness ==
    /\ Len(handed_out) >= 3
    /\ \E i \in 1..Len(handed_out) : handed_out[i].thread # handed_out[1].thread
    /\ handed_out[Len(handed_out)].segment_index = 1
    /\ handed_out[Len(handed_out)].row_index > STANDARD_VECTOR_SIZE

\* The validity bits stored for the rows of one descriptor chain.
RECURSIVE StoredValidity(_, _)
StoredValidity(segment, index) ==
    IF index = INVALID_INDEX
    THEN <<>>
    ELSE LET vdata == GetVectorData(segment, index)
         IN  [i \in 1..vdata.count |-> vdata.validity[i - 1]]
             \o StoredValidity(segment, vdata.next_data)

\* The validity bits stored for one column, over all chunks of a collection.
ColumnValidity(collection, col) ==
    Concat([s \in 1..Len(collection.segments) |->
               Concat([k \in 1..Len(collection.segments[s].chunk_data) |->
                          StoredValidity(collection.segments[s],
                              collection.segments[s].chunk_data[k].vector_data[col])])])

\* C9: validity preservation.  For every appended chunk and every column, the
\* stored row that corresponds to input position k is null if and only if
\* input row k is null, also in a descriptor that already held rows of
\* earlier Appends.
C9_ValidityPreservation ==
    \A c \in Collections :
        history[c].only_appended =>
            \A col \in 1..Len(collections[c].types) :
                /\ ColumnValidity(collections[c], col) =
                       [k \in 1..Len(history[c].rows) |->
                           IF history[c].rows[k][col] = NULL THEN 0 ELSE 1]
                /\ \A k \in 1..Len(history[c].rows) :
                       (ScannedRows(collections[c])[k][col] = NULL)
                           <=> (history[c].rows[k][col] = NULL)

\* An Append has written a row that is not NULL to a descriptor that held a
\* NULL row of an earlier Append.
C9_Witness ==
    \E c \in Collections :
        /\ history[c].only_appended
        /\ last.op = "Append" /\ last.this = c /\ last.result = "ok"
        /\ size(last.input) = 1
        /\ Len(history[c].rows) = 2
        /\ history[c].rows[1] = <<NULL>>
        /\ history[c].rows[2] # <<NULL>>
        /\ Len(collections[c].segments[1].chunk_data) = 1

\* The counts of the chunks of the segment an Append wrote to.
LastChunkCounts(collection) ==
    IF collection.segments = <<>>
    THEN <<>>
    ELSE [k \in 1..Len(Last(collection.segments).chunk_data) |->
             Last(collection.segments).chunk_data[k].count]

\* The rows held by the segment an Append wrote to.
LastSegmentRows(collection) ==
    IF collection.segments = <<>>
    THEN <<>>
    ELSE Concat([k \in 1..Len(Last(collection.segments).chunk_data) |->
                    RowsOf(ReadChunk(Last(collection.segments), k - 1,
                                     AllColumns(collection)))])

\* m rows laid out in chunks of STANDARD_VECTOR_SIZE rows.
FilledCounts(m) ==
    [i \in 1..((m + STANDARD_VECTOR_SIZE - 1) \div STANDARD_VECTOR_SIZE) |->
        MinValue(m, i * STANDARD_VECTOR_SIZE) - (i - 1) * STANDARD_VECTOR_SIZE]

\* C10: chunk overflow on Append.  An Append of n > 0 rows fills the last
\* chunk up to STANDARD_VECTOR_SIZE before it allocates a new chunk in the
\* same segment, and places the input rows in input order; from an empty
\* collection n rows make ceil(n / STANDARD_VECTOR_SIZE) chunks, chunk i
\* holding input rows [i * STANDARD_VECTOR_SIZE,
\* min(n, (i + 1) * STANDARD_VECTOR_SIZE)).
C10_ChunkOverflow ==
    [][\A c \in Collections :
          (/\ last'.op \in {"Append", "AppendChunk"} /\ last'.this = c
           /\ last'.result = "ok" /\ size(last'.input) > 0) =>
              LET n      == size(last'.input)
                  before == LastChunkCounts(collections[c])
                  after  == LastChunkCounts(collections'[c])
                  full   == IF before = <<>> THEN <<>> ELSE SubSeq(before, 1, Len(before) - 1)
                  partly == IF before = <<>> THEN 0 ELSE Last(before)
                  V      == STANDARD_VECTOR_SIZE
              IN  /\ after = full \o FilledCounts(partly + n)
                  /\ LastSegmentRows(collections'[c]) =
                         LastSegmentRows(collections[c]) \o RowsOf(last'.input)
                  /\ Len(collections'[c].segments) =
                         IF collections[c].segments = <<>> THEN 1
                         ELSE Len(collections[c].segments)
                  /\ collections[c].count = 0 =>
                         /\ Len(after) = (n + V - 1) \div V
                         /\ \A i \in 0..(Len(after) - 1) :
                                RowsOf(ReadChunk(Last(collections'[c].segments), i,
                                                 AllColumns(collections'[c]))) =
                                SubSeq(RowsOf(last'.input), i * V + 1,
                                       MinValue(n, (i + 1) * V))]_vars

\* An Append of STANDARD_VECTOR_SIZE rows has filled a chunk that held one
\* row and put the rest in a new chunk of the same segment.
C10_Witness ==
    \E c \in Collections :
        /\ last.op = "Append" /\ last.this = c /\ last.result = "ok"
        /\ size(last.input) = STANDARD_VECTOR_SIZE
        /\ history[c].only_appended
        /\ Len(history[c].rows) = STANDARD_VECTOR_SIZE + 1
        /\ Len(collections[c].segments) = 1
        /\ LastChunkCounts(collections[c]) = <<STANDARD_VECTOR_SIZE, 1>>

\* The loop over Chunks() has ended: the iterator compares equal to end().
ChunksEnded ==
    chunk_iterator.started /\ ~ChunkIteratorNotEqual(chunk_iterator.it, ChunksEnd)

\* The loop over Rows() has ended.
RowsEnded ==
    row_iterator.started /\ ~RowIteratorNotEqual(row_iterator.it, RowsEnd)

\* C11: empty collection.  For a collection with Count() = 0, ChunkCount() is
\* 0, a loop over Chunks() yields no chunk, GetRows() has no row, a loop over
\* Rows() visits no row and the first serial Scan returns false.
C11_EmptyCollection ==
    Scanned.count = 0 =>
        /\ CollectionChunkCount(Scanned) = [chunk_count |-> 0, result |-> "ok"]
        /\ chunk_iterator.started => ChunksEnded
        /\ chunk_iterator.yielded = <<>>
        /\ GetRows(Scanned).rows = <<>>
        /\ row_iterator.started => RowsEnded
        /\ row_iterator.visited = <<>>
        /\ serial_scan.calls # <<>> => ~serial_scan.calls[1].returned

\* C12: Rows() and GetRows().  A loop over Rows() visits exactly Count()
\* rows; the k-th visited row (k from 0) has RowIndex() = k, lies inside the
\* scratch chunk and has the column values of GetRows()[k].
C12_RowsEquivalence ==
    /\ \A k \in 1..Len(row_iterator.visited) :
           LET row == row_iterator.visited[k]
           IN  /\ RowIndex(row) = k - 1
               /\ row.row_index < row.chunk_size
               /\ k <= Len(GetRows(Scanned).rows)
               /\ \A col \in 1..Len(Scanned.types) :
                      row.values[col] = GetValue(GetRows(Scanned), col - 1, k - 1)
    /\ RowsEnded => Len(row_iterator.visited) = Scanned.count

\* C13: Chunks() and Scan.  For a collection holding at least one row the
\* loop over Chunks() ends, and the chunks it yields are the chunks a serial
\* Scan from a fresh InitializeScan with the same column_ids delivers.
C13_ChunksEquivalence ==
    Scanned.count > 0 =>
        LET scan == FullScan(Scanned).chunks
        IN  /\ Len(chunk_iterator.yielded) <= Len(scan)
            /\ chunk_iterator.yielded = SubSeq(scan, 1, Len(chunk_iterator.yielded))
            /\ ChunksEnded =>
                   /\ chunk_iterator.yielded = scan
                   /\ Concat([i \in 1..Len(chunk_iterator.yielded) |->
                                 RowsOf(chunk_iterator.yielded[i])]) = ScannedRows(Scanned)
            /\ (chunk_iterator.started /\ Len(chunk_iterator.yielded) = Len(scan))
                   => ChunksEnded

\* A loop over Chunks() has ended after yielding three chunks of two
\* segments.
C13_Witness ==
    /\ ChunksEnded
    /\ Scanned.count > STANDARD_VECTOR_SIZE
    /\ Len(Scanned.segments) = 2
    /\ Len(chunk_iterator.yielded) = 3
    /\ size(chunk_iterator.yielded[1]) = STANDARD_VECTOR_SIZE

\* The (segment_index, chunk_index) pairs of a collection in increasing order.
ChunkPairs(collection) ==
    Concat([s \in 1..Len(collection.segments) |->
               [k \in 1..Len(collection.segments[s].chunk_data) |->
                   [segment_index |-> s - 1, chunk_index |-> k - 1]]])

C20_ScanRowCursors ==
    LET calls == serial_scan.calls
    IN  \A i \in 1..Len(calls) :
            IF calls[i].returned
            THEN /\ calls[i].current_row_index =
                        SumSeq([j \in 1..(i - 1) |-> size(calls[j].chunk)])
                 /\ calls[i].next_row_index - calls[i].current_row_index =
                        size(calls[i].chunk)
            ELSE /\ calls[i].current_row_index = Scanned.count
                 /\ calls[i].next_row_index = Scanned.count

\* A scan has delivered a full chunk and a partly filled one at a row index
\* that is not 0, and has then returned false.
C20_Witness ==
    LET calls == serial_scan.calls
    IN  /\ Len(calls) >= 3
        /\ calls[2].returned /\ calls[2].current_row_index = STANDARD_VECTOR_SIZE
        /\ size(calls[2].chunk) > 0
        /\ \E i \in 1..Len(calls) : ~calls[i].returned /\ calls[i].next_row_index > 0

\* ---- C14
\* The collections a and b hold the same values: the same number of columns
\* and of rows, and at every row and column equal values.
SameValues(left, right) ==
    /\ Len(left.types) = Len(right.types)
    /\ left.count = right.count
    /\ \A r \in 0..(left.count - 1) : \A c \in 0..(Len(left.types) - 1) :
           GetValue(GetRows(left), c, r) = GetValue(GetRows(right), c, r)

\* C14: ResultEquals(left, right, error_message) returns true exactly when
\* left and right have the same column count, the same row count and equal
\* values at every row and column; when it returns false it has written a
\* message.
C14_ResultEquals ==
    last.op = "ResultEquals" =>
        /\ last.returned <=> SameValues(collections["a"], collections["b"])
        /\ ~last.returned => last.error_message # NoMessage

\* ---- C17
\* C17: when d is copy-constructed from c, c.finished_append is true
\* afterwards and d starts with Count() == 0, the types of c and the
\* allocator of c; finished_append of a collection stays true for as long as
\* the collection lives; and every InitializeAppend or Append on a collection
\* whose finished_append is true fails its assertion and leaves the
\* collection as it was.
C17_CopyFinalisesSource ==
    [][ /\ (last'.op = "copy" /\ last'.result = "ok") =>
               /\ collections'[last'.other].finished_append
               /\ collections'[last'.this].count = 0
               /\ collections'[last'.this].segments = <<>>
               /\ collections'[last'.this].types = collections[last'.other].types
               /\ collections'[last'.this].allocator = collections[last'.other].allocator
               /\ collections'[last'.this].allocator = collections'[last'.other].allocator
        /\ \A c \in Collections :
               (collections[c].finished_append /\ ~(last'.op = "copy" /\ last'.this = c)) =>
                   /\ collections'[c].finished_append
                   /\ (last'.op \in {"InitializeAppend", "Append", "AppendChunk"}
                       /\ last'.this = c) =>
                          /\ last'.result = "InternalException"
                          /\ collections'[c] = collections[c]
      ]_vars

\* An Append of rows has been rejected on a collection that holds rows and
\* was the source of a copy that shares its allocator.
C17_Witness ==
    /\ last.op \in {"Append", "AppendChunk"}
    /\ last.result = "InternalException"
    /\ last.input.types = collections[last.this].types
    /\ collections[last.this].finished_append
    /\ collections[last.this].count > 0
    /\ \E d \in Collections :
           /\ d # last.this
           /\ ~collections[d].finished_append
           /\ collections[d].count > 0
           /\ collections[d].allocator = collections[last.this].allocator

\* The chunk that holds row number row of a segment and the position of the
\* row in the chunk, from the counts of the chunks.
RECURSIVE ChunkOfRow(_, _, _)
ChunkOfRow(counts, chunk_index, row) ==
    IF row < counts[chunk_index + 1]
    THEN [chunk_index |-> chunk_index, position |-> row]
    ELSE ChunkOfRow(counts, chunk_index + 1, row - counts[chunk_index + 1])

\* The root descriptor of the only column of a chunk.
RootOf(segment, chunk_index) ==
    At(At(segment.chunk_data, chunk_index).vector_data, 0)

\* The total count of the child descriptor chain of a chunk of lists.
ChildChainCount(segment, chunk_index) ==
    LET child_index == GetVectorData(segment, RootOf(segment, chunk_index)).child_index
    IN  IF child_index = INVALID_INDEX
        THEN 0
        ELSE CurrentListSize(segment, GetChildIndex(segment, child_index, 0))

\* The child chain count of the chunk before the call that led to this step;
\* a chunk the call allocated had no child entries.
ChildChainCountBefore(c, chunk_index) ==
    IF /\ collections[c].segments # <<>>
       /\ chunk_index < Len(Last(collections[c].segments).chunk_data)
    THEN ChildChainCount(Last(collections[c].segments), chunk_index)
    ELSE 0

\* Every list entry stored for a row that is not NULL lies inside the child
\* descriptor chain of its chunk.
ListEntriesInChildChain ==
    \A c \in Collections :
        InternalType(collections[c].types[1]) = "LIST" =>
            \A s \in 1..Len(collections[c].segments) :
                collections[c].segments[s] # nullptr =>
                    \A k \in 0..(Len(collections[c].segments[s].chunk_data) - 1) :
                        LET segment == collections[c].segments[s]
                            slots   == ReadSlots(segment, RootOf(segment, k))
                        IN  \A i \in 1..Len(slots) :
                                slots[i].validity = 1 =>
                                    slots[i].data.offset + slots[i].data.length
                                        <= ChildChainCount(segment, k)

\* An Append of lists has stored, for every input row that is not NULL, an
\* entry of the input's length at the input's offset plus the child chain
\* count the chunk had before.
ListEntriesRebased ==
    \A c \in Collections :
        (/\ last'.op = "AppendChunk" /\ last'.this = c /\ last'.result = "ok"
         /\ InternalType(collections[c].types[1]) = "LIST") =>
            LET input   == last'.input
                segment == Last(collections'[c].segments)
                first   == segment.count - size(input)
            IN  \A k \in 0..(size(input) - 1) :
                    LET at     == ChunkOfRow(LastChunkCounts(collections'[c]), 0, first + k)
                        stored == ReadSlots(segment, RootOf(segment, at.chunk_index))
                                      [at.position + 1]
                        entry  == input.data[1].entries[k + 1]
                    IN  IF input.data[1].validity[k + 1]
                        THEN /\ stored.validity = 1
                             /\ stored.data.length = entry.length
                             /\ stored.data.offset =
                                    entry.offset
                                        + ChildChainCountBefore(c, at.chunk_index)
                        ELSE stored.validity = 0

\* ---- C15
\* C15: list offset rebasing.  After every completed Append of a list column
\* each stored list entry keeps the length of its input entry and has the
\* input offset plus the total count of the chunk's child descriptor chain as
\* it was before that copy; and in every reachable state offset + length of
\* every stored list entry is at most the total count of the child
\* descriptor chain of its chunk.
C15_ListOffsetRebasing ==
    /\ []ListEntriesInChildChain
    /\ [][ListEntriesRebased]_vars

\* An Append of one list that is not empty to a chunk that held a list that
\* is not empty: the entry is stored at an offset that is not the input's.
C15_Witness ==
    \E c \in Collections :
        /\ last.op = "AppendChunk" /\ last.this = c /\ last.result = "ok"
        /\ InternalType(collections[c].types[1]) = "LIST"
        /\ size(last.input) = 1
        /\ last.input.data[1].validity[1]
        /\ last.input.data[1].entries[1] = [offset |-> 0, length |-> STANDARD_VECTOR_SIZE]
        /\ Len(collections[c].segments) = 1
        /\ LET segment == collections[c].segments[1]
               slots   == ReadSlots(segment, RootOf(segment, 0))
           IN  /\ Len(slots) = 2
               /\ slots[2].validity = 1
               /\ slots[2].data.offset > 0
               /\ ChildChainCount(segment, 0) > STANDARD_VECTOR_SIZE

\* The string_t stored for the rows that are not NULL in the descriptor
\* chain of a column or child of the type, and in the chains of its children.
RECURSIVE StoredStrings(_, _, _)
StoredStrings(segment, type, index) ==
    LET slots       == ReadSlots(segment, index)
        child_index == GetVectorData(segment, index).child_index
    IN  CASE InternalType(type) = "VARCHAR" ->
                 { slots[i].data : i \in { i \in 1..Len(slots) : slots[i].validity = 1 } }
          [] InternalType(type) \in {"LIST", "STRUCT"} ->
                 UNION { StoredStrings(segment, ChildTypes(type)[c],
                                       GetChildIndex(segment, child_index, c - 1)) :
                         c \in 1..Len(ChildTypes(type)) }
          [] OTHER -> {}

\* The values a full serial scan delivers, chunk after chunk, and how the
\* scan ended.
ScannedValues(collection) ==
    LET scan == FullScan(collection)
    IN  [values |-> Concat([i \in 1..Len(scan.chunks) |-> ValuesOf(scan.chunks[i])]),
         result |-> scan.result]

\* The column holds strings.
HoldsStrings(type) == InternalType(type) \in {"VARCHAR", "STRUCT"}

\* ---- C16
\* C16: string ownership.  After any sequence of Append and Combine every
\* stored string that is not inlined references a blob in the heap of the
\* segment that holds it and never the memory of the appended source chunk,
\* inlined strings are stored by value; so the scanned string values equal
\* the inputs after the source chunk has been destroyed and after Combine
\* has moved the segment.
C16_StringOwnership ==
    \A c \in Collections :
        (\E col \in 1..Len(collections[c].types) :
             HoldsStrings(collections[c].types[col])) =>
            /\ \A s \in 1..Len(collections[c].segments) :
                   LET segment == collections[c].segments[s]
                   IN  segment # nullptr =>
                           \A k \in 0..(Len(segment.chunk_data) - 1) :
                           \A col \in 1..Len(segment.types) :
                               \A string \in
                                   StoredStrings(segment, segment.types[col],
                                       At(segment.chunk_data, k).vector_data[col]) :
                                   IF string.inlined
                                   THEN /\ string.owner = "string_t"
                                        /\ string.value \in 1..INLINE_LENGTH
                                   ELSE /\ string.owner = "heap"
                                        /\ string.value \in 0..(Len(segment.heap) - 1)
                                        /\ At(segment.heap, string.value) > INLINE_LENGTH
            /\ Usable(collections[c]) =>
                   ScannedValues(collections[c]) =
                       [values |-> history[c].rows, result |-> "ok"]

\* A Combine has moved a segment that holds an inlined string and a string
\* in its heap to a collection that holds a heap string of its own.
C16_Witness ==
    \E c \in Collections :
        /\ last.op = "Combine" /\ last.this = c /\ last.result = "ok"
        /\ collections[c].types = <<"VARCHAR">>
        /\ Len(collections[c].segments) = 2
        /\ collections[c].segments[1].heap # <<>>
        /\ Len(collections[c].segments[2].heap) = 1
        /\ collections[c].segments[2].count = 2
        /\ history[c].rows =
               <<<<INLINE_LENGTH + 1>>, <<INLINE_LENGTH>>, <<INLINE_LENGTH + 1>>>>

\* Every vector descriptor of the table of a segment, be it a root, an
\* overflow or a child descriptor, holds at most STANDARD_VECTOR_SIZE rows.
DescriptorsBounded(segment) ==
    \A index \in 0..(Len(segment.vector_data) - 1) :
        GetVectorData(segment, index).count <= STANDARD_VECTOR_SIZE

\* Of every chunk and every column of the schema, the descriptor chain from
\* the root of the column holds as many rows as the chunk.
ChainsHoldChunkRows(segment) ==
    \A k \in 0..(Len(segment.chunk_data) - 1) :
        \A col \in 0..(Len(segment.types) - 1) :
            CurrentListSize(segment, At(At(segment.chunk_data, k).vector_data, col))
                = At(segment.chunk_data, k).count

\* ---- C18
\* C18: descriptor invariant.  After every completed Append, for every chunk
\* and every column of the schema the descriptor chain reachable from the
\* column's root descriptor via next_data has a total count equal to the
\* chunk's row count; and in every reachable state every vector descriptor
\* (root, overflow or child) has a count of at most STANDARD_VECTOR_SIZE.
C18_DescriptorInvariant ==
    \A c \in Collections :
        \A s \in 1..Len(collections[c].segments) :
            collections[c].segments[s] # nullptr =>
                /\ DescriptorsBounded(collections[c].segments[s])
                /\ (last.op = "AppendChunk" /\ last.this = c /\ last.result = "ok") =>
                       ChainsHoldChunkRows(collections[c].segments[s])

\* An Append of lists has filled a chunk and gone on in a second one, and
\* has made the chain of child descriptors of the first chunk overflow into
\* a descriptor linked by next_data.
C18_Witness ==
    \E c \in Collections :
        /\ last.op = "AppendChunk" /\ last.this = c /\ last.result = "ok"
        /\ Len(collections[c].segments) = 1
        /\ LET segment == collections[c].segments[1]
           IN  /\ InternalType(segment.types[1]) = "LIST"
               /\ Len(segment.chunk_data) = 2
               /\ At(segment.chunk_data, 0).count = STANDARD_VECTOR_SIZE
               /\ At(segment.chunk_data, 1).count = 1
               /\ \E index \in 0..(Len(segment.vector_data) - 1) :
                      /\ GetVectorData(segment, index).next_data # INVALID_INDEX
                      /\ GetVectorData(segment, index).count = STANDARD_VECTOR_SIZE
                      /\ GetVectorData(segment,
                             GetVectorData(segment, index).next_data).count > 0

\* ---- C21
\* C21: pin-cache bound.  Whenever a scan reads a chunk of segment s, be it
\* the serial scan through its state or a thread of a parallel scan through
\* its local state, its pin cache has been cleared since it last read a chunk
\* of another segment: a pin cache holds the handles of the segment the scan
\* is at and of no other, so never those of more than one segment.
C21_PinCacheBound ==
    /\ serial_scan.state.handles \subseteq {serial_scan.state.segment_index}
    /\ Cardinality(serial_scan.state.handles) <= 1
    /\ \A i \in 1..Len(serial_scan.calls) :
           serial_scan.calls[i].returned /\ i = Len(serial_scan.calls) =>
               serial_scan.state.handles = {serial_scan.calls[i].segment_index}
    /\ \A t \in Threads :
           /\ lstate[t].handles \subseteq {lstate[t].current_segment_index}
           /\ Cardinality(lstate[t].handles) <= 1
           /\ \A i \in 1..Len(delivered) :
                  (/\ delivered[i].thread = t
                   /\ \A j \in (i + 1)..Len(delivered) : delivered[j].thread # t) =>
                      lstate[t].handles = {delivered[i].segment_index}

\* A thread of a parallel scan has read a chunk of the first segment and
\* then one of the second: its pin cache holds the second segment only.
C21_Witness ==
    \E t \in Threads :
        /\ lstate[t].handles = {1}
        /\ \E i \in 1..Len(delivered) :
               delivered[i].thread = t /\ delivered[i].segment_index = 0
        /\ \E u \in Threads : u # t /\ lstate[u].handles = {0}

\* The descriptors of one chain, following next_data from its head.
RECURSIVE ChainOf(_, _)
ChainOf(segment, index) ==
    IF index = INVALID_INDEX
    THEN <<>>
    ELSE <<index>> \o ChainOf(segment, GetVectorData(segment, index).next_data)

\* The heads of the chains of struct descriptors of a chunk: the root of a
\* struct column, the child of the root of a column of lists of structs.
StructHeads(segment, chunk_index) ==
    LET type == segment.types[1]
        root == RootOf(segment, chunk_index)
    IN  CASE InternalType(type) = "STRUCT" -> {root}
          [] InternalType(type) = "LIST" /\ InternalType(ChildTypes(type)[1]) = "STRUCT" ->
                 {GetChildIndex(segment, GetVectorData(segment, root).child_index, 0)}
          [] OTHER -> {}

\* No value was ever written to the data of the descriptor.
HoldsOnlyValidity(segment, index) ==
    \A i \in Slots : GetVectorData(segment, index).data[i] = UNINITIALIZED

\* Every field of the struct is reachable through the child_index of the
\* descriptor, and its chain holds as many rows as the chain from head.
FieldsAligned(segment, index, head) ==
    /\ GetVectorData(segment, index).child_index # INVALID_INDEX
    /\ \A c \in 0..(Len(ChildTypes("STRUCT(INT32, VARCHAR)")) - 1) :
           CurrentListSize(segment,
               GetChildIndex(segment, GetVectorData(segment, index).child_index, c))
               = CurrentListSize(segment, head)

\* The struct chains of the chunks of a collection an Append has returned
\* from: the number of the segment (from 1) and the head of the chain.
AppendedStructChains ==
    IF last.op = "AppendChunk" /\ last.result = "ok"
    THEN UNION { UNION { { [s |-> s, head |-> head] :
                             head \in StructHeads(collections[last.this].segments[s], k) } :
                           k \in 0..(Len(collections[last.this].segments[s].chunk_data) - 1) } :
                   s \in 1..Len(collections[last.this].segments) }
    ELSE {}

\* The segment of a struct chain.
SegmentOf(chain) == collections[last.this].segments[chain.s]

StoredRows(collection, segment, k) ==
    RowsOf(ReadChunk(segment, k - 1, AllColumns(collection)))

\* Every row the segment before held is in the segment after, in the same
\* chunk at the same position with the same value.
RowsKept(collection, before, after) ==
    /\ Len(after.chunk_data) >= Len(before.chunk_data)
    /\ \A k \in 1..Len(before.chunk_data) :
           /\ after.chunk_data[k].count >= before.chunk_data[k].count
           /\ SubSeq(StoredRows(collection, after, k), 1, before.chunk_data[k].count)
                  = StoredRows(collection, before, k)

\* The effect of an Append(state, input) of n rows that took the collection
\* from before to after.
AppendEffect(before, after, n) ==
    /\ after.count = before.count + n
    /\ Len(after.segments) = Len(before.segments)
    /\ Last(after.segments).count = Last(before.segments).count + n
    /\ \A s \in 1..(Len(before.segments) - 1) : after.segments[s] = before.segments[s]
    /\ RowsKept(before, Last(before.segments), Last(after.segments))

\* ---- C23
\* C23: Append(state, input) with a matching schema, on a collection whose
\* last segment InitializeAppend has prepared, returns normally, increases
\* Count() and the count of the last segment by exactly input.size(),
\* creates no new segment, and leaves every segment other than the last, and
\* every row already stored in any chunk, unchanged.
C23_AppendEffectAndFrame ==
    [][ last'.op = "Append" =>
          /\ (/\ last'.input.types = collections[last'.this].types
              /\ Last(collections[last'.this].segments) # nullptr)
                 => last'.result = "ok"
          /\ last'.result = "ok" =>
                 /\ last'.input.types = collections[last'.this].types
                 /\ AppendEffect(collections[last'.this], collections'[last'.this],
                                 size(last'.input))
                 /\ \A c \in Collections \ {last'.this} : collections'[c] = collections[c] ]_vars

\* An Append(state, input) of at least two rows has returned on a collection
\* of two segments whose last segment held a row before: the rows filled
\* that segment's chunk and went on in a new chunk.
C23_Witness ==
    /\ last.op = "Append" /\ last.result = "ok"
    /\ size(last.input) >= 2
    /\ Len(collections[last.this].segments) = 2
    /\ Len(Last(collections[last.this].segments).chunk_data) = 2
    /\ Last(collections[last.this].segments).count > size(last.input)

\* The effect of an InitializeAppend(state) that took the collection from
\* before to after: a segment is created only if there was none, a chunk
\* only if the last segment had none; nothing else changes.
InitializeAppendEffect(before, after) ==
    /\ after.segments # <<>>
    /\ Last(after.segments).chunk_data # <<>>
    /\ after.count = before.count
    /\ IF before.segments = <<>>
       THEN /\ Len(after.segments) = 1
            /\ after.segments[1].count = 0
            /\ Len(after.segments[1].chunk_data) = 1
            /\ after.segments[1].chunk_data[1].count = 0
       ELSE /\ Len(after.segments) = Len(before.segments)
            /\ \A s \in 1..(Len(before.segments) - 1) :
                   after.segments[s] = before.segments[s]
            /\ IF Last(before.segments).chunk_data = <<>>
               THEN /\ Last(after.segments).count = Last(before.segments).count
                    /\ Len(Last(after.segments).chunk_data) = 1
                    /\ Last(after.segments).chunk_data[1].count = 0
               ELSE Last(after.segments) = Last(before.segments)

\* ---- C24
\* C24: after InitializeAppend(state) the collection has at least one
\* segment and its last segment has at least one chunk; a segment is created
\* only if there was none and a chunk only if the last segment had none, so
\* a second InitializeAppend creates nothing new; Count() and all stored
\* rows are unchanged by it.
C24_InitializeAppendPostcondition ==
    [][ last'.op = "InitializeAppend" =>
          /\ (\/ collections[last'.this].segments = <<>>
              \/ Last(collections[last'.this].segments) # nullptr)
                 => last'.result = "ok"
          /\ last'.result = "ok" =>
                 /\ InitializeAppendEffect(collections[last'.this],
                                           collections'[last'.this])
                 /\ InitializeAppend(collections'[last'.this])
                        = Outcome(collections'[last'.this], "ok")
                 /\ FullScan(collections'[last'.this]).result = "ok"
                        => ScannedRows(collections'[last'.this])
                               = ScannedRows(collections[last'.this])
                 /\ \A c \in Collections \ {last'.this} : collections'[c] = collections[c] ]_vars

\* InitializeAppend has been called on a collection that holds rows in two
\* segments: it had nothing to create.
C24_Witness ==
    /\ last.op = "InitializeAppend" /\ last.result = "ok"
    /\ Len(collections[last.this].segments) = 2
    /\ collections[last.this].count > 0
    /\ Last(collections[last.this].segments).count > 0

\* ---------------------------------------------------------------- FetchChunk
\* What FetchChunk has read: the segment and the chunk it found for
\* chunk_idx, the DataChunk read from it, and how the call ended.
Fetched(segment_index, chunk_index, chunk, result) ==
    [segment_index |-> segment_index, chunk_index |-> chunk_index,
     chunk |-> chunk, result |-> result]

\* Mutant: the loop of FetchChunk without "chunk_idx -= segment->ChunkCount()".
RECURSIVE FetchChunkLoopKeepsIndex(_, _, _)
FetchChunkLoopKeepsIndex(collection, segment_index, chunk_idx) ==
    IF segment_index >= Len(collection.segments)
    THEN Fetched(0, 0, ResetChunk(collection.types), "InternalException")
    ELSE IF At(collection.segments, segment_index) = nullptr
    THEN Fetched(0, 0, ResetChunk(collection.types), "segfault")
    ELSE IF chunk_idx >= ChunkCount(At(collection.segments, segment_index))
    THEN FetchChunkLoopKeepsIndex(collection, segment_index + 1, chunk_idx)
    ELSE Fetched(segment_index, chunk_idx,
                 ReadChunk(At(collection.segments, segment_index), chunk_idx,
                           AllColumns(collection)),
                 "ok")

\* "for (auto &segment : segments)" of FetchChunk: a segment with no more
\* than chunk_idx chunks is passed over and its chunks are taken off chunk_idx;
\* otherwise the segment's FetchChunk reads its chunk chunk_idx with all
\* columns.  Past the last segment the function throws.
RECURSIVE FetchChunkLoop(_, _, _)
FetchChunkLoop(collection, segment_index, chunk_idx) ==
    IF segment_index >= Len(collection.segments)
    THEN Fetched(0, 0, ResetChunk(collection.types), "InternalException")
    ELSE IF At(collection.segments, segment_index) = nullptr
    THEN Fetched(0, 0, ResetChunk(collection.types), "segfault")
    ELSE IF chunk_idx >= ChunkCount(At(collection.segments, segment_index))
    THEN FetchChunkLoop(collection, segment_index + 1,
                        chunk_idx - ChunkCount(At(collection.segments, segment_index)))
    ELSE Fetched(segment_index, chunk_idx,
                 ReadChunk(At(collection.segments, segment_index), chunk_idx,
                           AllColumns(collection)),
                 "ok")

\* FetchChunk(chunk_idx, result).
FetchChunk(collection, chunk_idx) ==
    IF CollectionChunkCount(collection).result # "ok"
    THEN Fetched(0, 0, ResetChunk(collection.types), "segfault")
    ELSE IF ~(chunk_idx < CollectionChunkCount(collection).chunk_count)
    THEN Fetched(0, 0, ResetChunk(collection.types), "InternalException")
    ELSE FetchChunkLoop(collection, 0, chunk_idx)

\* The successful calls of a serial Scan from a fresh InitializeScan over
\* all columns: the segment and chunk NextScanIndex chose, and the chunk read.
RECURSIVE ScanPositionsFrom(_, _, _)
ScanPositionsFrom(collection, state, positions) ==
    LET Step(scanned, next) ==
            IF ~scanned.returned
            THEN positions
            ELSE ScanPositionsFrom(collection, scanned.state,
                     Append(positions,
                            Fetched(next.segment_index, next.chunk_index,
                                    scanned.chunk, "ok")))
    IN  Step(Scan(collection, state), NextScanIndex(collection, state))

ScanPositions(collection) ==
    ScanPositionsFrom(collection, InitializeScan(AllColumns(collection)), <<>>)

\* Collections are built with InitializeAppend, Append and Combine; between
\* the two steps of InitializeAppend a collection has a segment that has no
\* chunk yet.  FetchChunk is called on them.
InitFetch ==
    /\ DEBUG \in BOOLEAN
    /\ collections = [c \in Collections |-> Initialize(<<"INT32">>)]
    /\ next_value = 0
    /\ history = [c \in Collections |-> [rows |-> <<>>, only_appended |-> TRUE]]
    /\ last = Call("construct", "a", "a", NoInput, "ok")
    /\ NoScan
    /\ NoIteration

\* CreateSegment(): a segment without chunks at the end of the segment list.
CallCreateSegment(c) ==
    /\ Running
    /\ Len(collections["a"].segments) + Len(collections["b"].segments) < MaxSegments
    /\ collections' = [collections EXCEPT ![c] = CreateSegment(@)]
    /\ history' = [history EXCEPT ![c] = [rows |-> <<>>, only_appended |-> FALSE]]
    /\ last' = Call("CreateSegment", c, c, NoInput, "ok")
    /\ UNCHANGED <<DEBUG, next_value, scanvars, itervars>>

\* FetchChunk(chunk_idx, result), with chunk_idx up to ChunkCount().
CallFetchChunk(c, chunk_idx) ==
    /\ Running
    /\ chunk_idx <= CollectionChunkCount(collections[c]).chunk_count
    /\ fetched' = << [this |-> c, chunk_idx |-> chunk_idx,
                      read |-> FetchChunk(collections[c], chunk_idx)] >>
    /\ last' = Call("FetchChunk", c, c, NoInput, FetchChunk(collections[c], chunk_idx).result)
    /\ UNCHANGED <<DEBUG, collections, next_value, history, scanvars,
                   chunk_iterator, row_iterator, serial_scan>>

\* Append(input) of n rows without NULLs.
FetchAppend(c, n) ==
    /\ next_value + n <= MaxRows
    /\ CallAppendChunk(c, Source(next_value, n))

\* The collections are built first, a taking the segments of b; FetchChunk is
\* called on what was built.
NextFetch ==
    \/ fetched = <<>> /\ \E c \in Collections : CallInitializeAppend(c)
    \/ fetched = <<>> /\ \E c \in Collections : \E n \in 0..MaxInput : FetchAppend(c, n)
    \/ fetched = <<>> /\ CallCombine("a", "b")
    \/ fetched = <<>> /\ \E c \in Collections : CallCreateSegment(c)
    \/ \E chunk_idx \in 0..(MaxRows + MaxSegments) : CallFetchChunk("a", chunk_idx)

SpecFetch == InitFetch /\ [][NextFetch]_vars

\* ---- C25
\* C25: for every collection reachable by Append and Combine, also one
\* that contains segments without chunks, and every i < ChunkCount(),
\* FetchChunk(i) reads the same (segment, chunk) as the (i+1)-th successful
\* serial Scan from a fresh InitializeScan over all columns; the scan
\* succeeds ChunkCount() times, and FetchChunk(ChunkCount()) fails.  The
\* collections are those whose ChunkCount() returns.
C25_FetchChunkAgreesWithScan ==
    LET Agree(collection, chunk_count, positions) ==
            chunk_count.result = "ok" =>
                /\ Len(positions) = chunk_count.chunk_count
                /\ \A i \in 0..(chunk_count.chunk_count - 1) :
                       FetchChunk(collection, i) = positions[i + 1]
                /\ \A k \in 1..Len(fetched) :
                       (last.op = "FetchChunk" /\ collections[fetched[k].this] = collection) =>
                           IF fetched[k].chunk_idx < Len(positions)
                           THEN fetched[k].read = positions[fetched[k].chunk_idx + 1]
                           ELSE fetched[k].read.result # "ok"
    IN  \A c \in Collections :
            Agree(collections[c], CollectionChunkCount(collections[c]),
                  ScanPositions(collections[c]))

\* FetchChunk(1) has passed over a segment without chunks and has read the
\* first chunk of the third segment, which holds rows.
C25_Witness ==
    /\ last.op = "FetchChunk" /\ last.result = "ok"
    /\ Len(fetched) = 1
    /\ fetched[1].chunk_idx = 1
    /\ fetched[1].read.segment_index = 2
    /\ fetched[1].read.chunk_index = 0
    /\ size(fetched[1].read.chunk) > 0
    /\ ChunkCount(collections[fetched[1].this].segments[2]) = 0

\* The mutex of the shared state is held only by a thread inside the
\* lock_guard block: not during ReadChunk, not after a return.
LockHeldOnlyInBlock ==
    \A t \in Threads : pstate.lock = t => pc[t] = "locked"

\* Every thread has received false, and the mutex is free.
AllReceivedFalse ==
    /\ \A t \in Threads : pc[t] = "done"
    /\ pstate.lock = Unlocked

\* ---- C26
\* C26: with the threads repeatedly calling the parallel Scan on one shared
\* state over an unmodified collection, the shared lock is released on every
\* path of Scan (also the one that returns false) and is never held during
\* ReadChunk, no thread waits forever for the lock, and under fair
\* scheduling every thread eventually receives false.
C26_ParallelScanProgress ==
    /\ [](LockHeldOnlyInBlock)
    /\ \A t \in Threads : (pc[t] = "call") ~> (pc[t] = "locked")
    /\ <>[](AllReceivedFalse)

\* Every thread has received false after each of them has delivered a chunk.
C26_Witness ==
    /\ AllReceivedFalse
    /\ \A t \in Threads : \E i \in 1..Len(delivered) : delivered[i].thread = t

\* --------------------------------------------------------------------- Reset
\* Collections are filled, combined and reset, in any order.
CallReset(c) ==
    /\ Running
    /\ collections' = [collections EXCEPT ![c] = Reset(@)]
    /\ history' = [history EXCEPT ![c] = [rows |-> <<>>, only_appended |-> FALSE]]
    /\ last' = Call("Reset", c, c, NoInput, "ok")
    /\ UNCHANGED <<DEBUG, next_value, scanvars, itervars>>

\* Append(state, input) of n rows without NULLs.
FillAppendState(c, n) ==
    /\ next_value + n <= MaxRows
    /\ CallAppendState(c, Source(next_value, n))

NextFill ==
    \/ \E c \in Collections : CallInitializeAppend(c)
    \/ \E c \in Collections : \E n \in 0..MaxInput : FillAppendState(c, n)
    \/ \E c \in Collections : \E n \in 0..MaxInput : FetchAppend(c, n)
    \/ \E this \in Collections : \E other \in Collections : CallCombine(this, other)
    \/ \E c \in Collections : CallReset(c)

SpecFill == InitFetch /\ [][NextFill]_vars

\* The counts of the chunks of a segment.
CountsOf(segment) == [k \in 1..Len(segment.chunk_data) |-> segment.chunk_data[k].count]

\* ---- C27
\* C27: in every state reachable by InitializeAppend, Append, Combine and
\* Reset, every chunk has count <= STANDARD_VECTOR_SIZE and, within each
\* segment, every chunk other than the segment's last chunk has
\* count = STANDARD_VECTOR_SIZE.
C27_ChunkFillInvariant ==
    \A c \in Collections :
        \A s \in 1..Len(collections[c].segments) :
            collections[c].segments[s] # nullptr =>
                \A k \in 1..Len(collections[c].segments[s].chunk_data) :
                    /\ collections[c].segments[s].chunk_data[k].count <= STANDARD_VECTOR_SIZE
                    /\ k < Len(collections[c].segments[s].chunk_data) =>
                           collections[c].segments[s].chunk_data[k].count
                               = STANDARD_VECTOR_SIZE

\* Combine has moved a segment to a collection, the collection it came from
\* has been reset, and an Append has filled the chunk of the moved segment
\* and gone on in a new chunk.
C27_Witness ==
    /\ last.op = "Append" /\ last.result = "ok"
    /\ Len(collections[last.this].segments) = 2
    /\ \A s \in 1..2 : collections[last.this].segments[s] # nullptr
    /\ CountsOf(collections[last.this].segments[2]) = <<STANDARD_VECTOR_SIZE, 1>>
    /\ \E d \in Collections : collections[d].segments = <<>> /\ collections[d].count = 0
====
